------------------------ MODULE ToolsetSuccessProofs ------------------------
(***************************************************************************)
(* What a run of ToolsetResolve that succeeds has done, for every number   *)
(* of packages, faults and upstream edits: its toolset file, its lockfile  *)
(* and its memory agree when no other process works on that file, and the  *)
(* cache agrees with them when there is no other process.                  *)
(***************************************************************************)
EXTENDS ToolsetResolveProofs

\* The modules whose package is loaded and entered in the updated lock.
Settled(r) == Modules \ (r.todo \cup r.replaced)

\* What run r has done is in its memory, and nothing else is.
Taken(r) ==
  /\ \A m \in Settled(r) : r.upd[<<m, r.view[m]>>] # None /\ r.loaded[m] # None
  /\ \A k \in Pkgs : r.upd[k] # r.base[k] => \E m \in Settled(r) : k = <<m, r.view[m]>>

\* Run r works on toolset file ts and, once it is done, has written lockfile l.
Committed(r, ts, l) ==
  /\ r.pc \notin {"idle", "failed"} => ts = r.view
  /\ r.pc = "done" => l = r.upd /\ r.todo = {}
  /\ r.pc \in Resolving \cup {"done"} => Taken(r)
  /\ r.pc \in Working => r.mod \in r.todo \ r.replaced

\* Entry e of the cache is as far as run r has put it or has checked it.
InHand(r, e) ==
  /\ r.pc = "write archive" => e.archive = Empty
  /\ r.pc \in {"open manifest", "write manifest", "write info"} \cup Reading => e.archive = r.meta.archive
  /\ r.pc = "write manifest" => e.manifest = Empty
  /\ r.pc = "write info" => e.manifest = r.mani
  /\ r.pc \in Reading => Has(e)
  /\ r.pc = "read archive" => e.manifest = r.mani

\* Entry e is whole and is what run r has loaded for m and locked.
Stored(r, m, e) ==
  /\ Has(e) /\ Intact(e.manifest, e.archive)
  /\ e.archive = r.loaded[m] /\ e.archive = r.upd[<<m, r.view[m]>>].archive

\* Cache c holds what run r has loaded.
Warm(r, c) ==
  /\ r.pc \in Resolving \cup {"done"} => \A m \in Settled(r) : Stored(r, m, c[<<m, r.view[m]>>])
  /\ r.pc \in Working => InHand(r, c[KeyOf(r)])

\* There is one process at most.
Alone == \A p, q \in Procs : p = q

DoneInv ==
  /\ Exclusive => \A p \in Procs : Committed(run[p], toolset[File[p]], lock[File[p]])
  /\ Alone => \A p \in Procs : Warm(run[p], cache)

\* A step of process p to run r that writes no other toolset file or lockfile.
LEMMA OneRun ==
  ASSUME TypeInv, DoneInv, NEW p \in Procs, NEW r \in Run, Become(p, r),
         \A t \in Toolsets \ {File[p]} : toolset'[t] = toolset[t] /\ lock'[t] = lock[t],
         Exclusive => Committed(r, toolset'[File[p]], lock'[File[p]]),
         Alone => Warm(r, cache')
  PROVE  DoneInv'
<1>1. run'[p] = r /\ \A q \in Procs \ {p} : run'[q] = run[q]
  BY BecomeRun DEF TypeInv, TypeOK
<1>2. ASSUME Exclusive, NEW q \in Procs PROVE Committed(run'[q], toolset'[File[q]], lock'[File[q]])
  <2>1. CASE q = p
    BY <1>1, <1>2, <2>1
  <2>2. CASE q # p
    <3>1. File[q] \in Toolsets \ {File[p]}
      BY <1>2, <2>2, ResolveAssumption DEF Exclusive
    <3>2. Committed(run[q], toolset[File[q]], lock[File[q]])
      BY <1>2 DEF DoneInv
    <3> QED
      BY <1>1, <2>2, <3>1, <3>2
  <2> QED
    BY <2>1, <2>2
<1>3. ASSUME Alone, NEW q \in Procs PROVE Warm(run'[q], cache')
  <2>1. q = p
    BY <1>3 DEF Alone
  <2> QED
    BY <1>1, <1>3, <2>1
<1> QED
  BY <1>2, <1>3 DEF DoneInv, Exclusive, Alone

\* A run before it has read the lockfile, or one that has failed, has promised
\* nothing but the toolset file it works on.
LEMMA NothingDone ==
  ASSUME TypeInv, DoneInv, NEW p \in Procs, NEW r \in Run, Become(p, r),
         \A t \in Toolsets \ {File[p]} : toolset'[t] = toolset[t], UNCHANGED lock,
         r.pc \in {"failed", "lock", "upgrade"},
         Exclusive /\ r.pc # "failed" => toolset'[File[p]] = r.view
  PROVE  DoneInv'
<1>1. r.pc \notin Resolving \cup {"done"} /\ r.pc \notin Working
  BY Zenon DEF Resolving, Working
<1>2. Exclusive => Committed(r, toolset'[File[p]], lock'[File[p]])
  BY <1>1 DEF Committed
<1>3. Warm(r, cache')
  BY <1>1 DEF Warm
<1> QED
  BY <1>2, <1>3, OneRun

\* A run that fails preserves DoneInv.
LEMMA FailDone ==
  ASSUME TypeInv, DoneInv, NEW p \in Procs,
         NEW w \in {"fault", "source", "mismatch", "hit load", "load", "lock"}, Fail(p, w),
         UNCHANGED <<toolset, lock>>
  PROVE  DoneInv'
<1> DEFINE r == [Fresh(run[p].view) EXCEPT !.pc = "failed", !.why = w]
<1>1. run[p].view \in Packages
  BY Zenon DEF TypeInv, TypeOK, Run
<1>2. r \in Run
  BY Zenon, <1>1, FreshRun
<1>3. Become(p, r) /\ r.pc = "failed"
  BY Zenon DEF Fail, Fresh
<1> HIDE DEF r
<1> QED
  BY ZenonT(60), <1>2, <1>3, NothingDone

\* Start preserves DoneInv.
LEMMA StartDone == ASSUME TypeInv, DoneInv, NEW p \in Procs, Start(p) PROVE DoneInv'
<1>1. toolset[File[p]] \in Packages
  BY Zenon, ResolveAssumption DEF TypeInv, TypeOK
<1>2. PICK up \in Upgrades :
        Become(p, [Fresh(toolset[File[p]]) EXCEPT
                     !.pc = IF up = None THEN "lock" ELSE "upgrade", !.mod = up])
  BY Zenon DEF Start
<1> DEFINE c == IF up = None THEN "lock" ELSE "upgrade"
           f == Fresh(toolset[File[p]])
           r == [f EXCEPT !.pc = c, !.mod = up]
<1>3. f \in Run /\ f.view = toolset[File[p]]
  BY Zenon, <1>1, FreshRun DEF Fresh
<1>4. c \in {"lock", "upgrade"} /\ up \in Modules \cup {None}
  BY ResolveAssumption
<1>5. Become(p, r)
  BY <1>2
<1> HIDE DEF c, f
<1>6. r \in Run /\ r.view = toolset[File[p]] /\ r.pc = c
  BY ZenonT(60), <1>3, <1>4 DEF Run, PCs
<1> HIDE DEF r
<1>7. UNCHANGED <<toolset, lock>>
  BY DEF Start, disk
<1> QED
  BY <1>4, <1>5, <1>6, <1>7, NothingDone

\* The upgraded toolset file is saved before anything is resolved.
LEMMA UpgradeDone == ASSUME TypeInv, DoneInv, NEW p \in Procs, Upgrade(p) PROVE DoneInv'
<1>1. UNCHANGED lock /\ run[p].pc = "upgrade"
  BY DEF Upgrade
<1>2. CASE Fail(p, "source") /\ UNCHANGED toolset
  BY Zenon, <1>1, <1>2, FailDone
<1>3. ASSUME NEW latest \in Versions, UpgradeTo(p, latest) PROVE DoneInv'
  <2> DEFINE x == run[p]
             view == Upgraded(p, latest)
             r == [x EXCEPT !.pc = "lock", !.mod = None, !.view = view]
  <2>1. x \in Run /\ x.mod \in Modules /\ x.view \in Packages
    BY Zenon, <1>1 DEF TypeInv, TypeOK, RunShape, Run
  <2>2. view \in Packages
    BY Zenon, <2>1 DEF Packages, Upgraded
  <2>3. Become(p, r)
    BY <1>3 DEF UpgradeTo
  <2>4. \A t \in Toolsets \ {File[p]} : toolset'[t] = toolset[t]
    BY <1>3 DEF UpgradeTo, TypeInv, TypeOK
  <2>5. Exclusive => toolset'[File[p]] = view
    <3>1. Exclusive => toolset[File[p]] = x.view
      BY <1>1 DEF DoneInv, Committed
    <3>2. CASE latest = x.view[x.mod]
      <4>1. view = x.view
        BY <2>1, <3>2 DEF Packages, Upgraded
      <4> QED
        BY <1>3, <3>1, <3>2, <4>1 DEF UpgradeTo
    <3>3. CASE latest # x.view[x.mod]
      <4>1. toolset' = [toolset EXCEPT ![File[p]] = view]
        BY <1>3, <3>3 DEF UpgradeTo
      <4> HIDE DEF view
      <4> QED
        BY <4>1, ResolveAssumption DEF TypeInv, TypeOK
    <3> QED
      BY <3>2, <3>3
  <2> HIDE DEF view
  <2>6. r \in Run /\ r.view = view /\ r.pc = "lock"
    BY ZenonT(60), <2>1, <2>2 DEF Run, PCs
  <2> HIDE DEF r
  <2> QED
    BY <1>1, <2>3, <2>4, <2>5, <2>6, NothingDone
<1> QED
  <2>1. \A listed \in Listed(run[p].mod) : listed \subseteq Versions
    BY Zenon DEF Listed
  <2> QED
    BY Zenon, <1>2, <1>3, <2>1 DEF Upgrade

\* Run r goes on with the packages that run x has settled.
SameProgress(r, x) ==
  /\ r.view = x.view /\ r.base = x.base /\ r.upd = x.upd /\ r.loaded = x.loaded
  /\ r.replaced = x.replaced /\ r.todo \cup r.replaced = x.todo \cup x.replaced

\* Such a run has taken the same packages.
LEMMA SameTaken ==
  ASSUME NEW r, NEW x, SameProgress(r, x), Taken(x)
  PROVE  Taken(r)
<1>1. Settled(r) = Settled(x)
  BY DEF Settled, SameProgress
<1>2. r.view = x.view /\ r.base = x.base /\ r.upd = x.upd /\ r.loaded = x.loaded
  BY DEF SameProgress
<1> QED
  BY <1>1, <1>2 DEF Taken

\* What the cache holds for the one it holds for the other.
LEMMA SameStored ==
  ASSUME NEW r, NEW x, SameProgress(r, x), NEW m, NEW e, Stored(x, m, e)
  PROVE  Stored(r, m, e)
BY DEF Stored, SameProgress

\* A step inside a run: of the cache it writes at most the entry it works on, which is
\* not one of those that are settled.
LEMMA GoesOn ==
  ASSUME TypeInv, DoneInv, NEW p \in Procs, NEW r \in Run, Become(p, r), UNCHANGED <<toolset, lock>>,
         run[p].pc \in Resolving, r.pc \in Resolving, SameProgress(r, run[p]),
         Exclusive /\ r.pc \in Working => r.mod \in r.todo \ r.replaced,
         \/ UNCHANGED cache
         \/ r.pc \in Working /\ \A k \in Pkgs \ {KeyOf(r)} : cache'[k] = cache[k],
         Alone /\ r.pc \in Working => InHand(r, cache'[KeyOf(r)])
  PROVE  DoneInv'
<1> DEFINE x == run[p]
<1>1. r.pc # "done" /\ r.pc \notin {"idle", "failed"} /\ x.pc \notin {"idle", "failed"}
  BY ZenonT(60) DEF Resolving, Working
<1>2. Settled(r) = Settled(x)
  BY DEF Settled, SameProgress
<1>3. Exclusive => Committed(r, toolset'[File[p]], lock'[File[p]])
  <2> SUFFICES ASSUME Exclusive PROVE Committed(r, toolset[File[p]], lock[File[p]])
    OBVIOUS
  <2>1. toolset[File[p]] = x.view /\ Taken(x)
    BY <1>1 DEF DoneInv, Committed
  <2>2. Taken(r)
    BY <2>1, SameTaken
  <2> QED
    BY <1>1, <2>1, <2>2 DEF Committed, SameProgress
<1>4. Alone => Warm(r, cache')
  <2> SUFFICES ASSUME Alone PROVE Warm(r, cache')
    OBVIOUS
  <2>1. Exclusive
    BY DEF Alone, Exclusive
  <2>2. ASSUME NEW m \in Settled(r) PROVE Stored(r, m, cache'[<<m, r.view[m]>>])
    <3> DEFINE k == <<m, r.view[m]>>
    <3>1. Stored(x, m, cache[k])
      BY <1>2 DEF DoneInv, Warm, SameProgress
    <3>2. k \in Pkgs
      BY ZenonT(60) DEF Settled, Run, Packages, Pkgs
    <3>3. r.pc \in Working => k # KeyOf(r)
      BY <2>1 DEF Settled, KeyOf
    <3>4. cache'[k] = cache[k]
      BY Zenon, <3>2, <3>3
    <3> HIDE DEF k
    <3>5. Stored(r, m, cache[k])
      BY <3>1, SameStored
    <3> QED
      BY Zenon, <3>4, <3>5 DEF k
  <2> QED
    BY <2>2 DEF Warm
<1> QED
  BY <1>3, <1>4, OneRun

\* What a step inside a run finds, and it is at one module.
LEMMA AtModule ==
  ASSUME TypeInv, DoneInv, NEW p \in Procs, run[p].pc \in Working
  PROVE  /\ run[p] \in Run /\ run[p].pc \in Resolving /\ Key(p) = KeyOf(run[p]) /\ Key(p) \in Pkgs
         /\ Exclusive => run[p].mod \in run[p].todo \ run[p].replaced
         /\ Alone => InHand(run[p], cache[Key(p)])
<1>1. run[p] \in Run /\ run[p].pc \in Resolving /\ Key(p) = KeyOf(run[p]) /\ Key(p) \in Pkgs
  BY ZenonT(60), KeyType DEF TypeInv, TypeOK, Resolving, Key, KeyOf
<1>2. Exclusive => run[p].mod \in run[p].todo \ run[p].replaced
  BY DEF DoneInv, Committed
<1>3. Alone => InHand(run[p], cache[Key(p)])
  BY Zenon, <1>1 DEF DoneInv, Warm
<1> QED
  BY <1>1, <1>2, <1>3

\* A step that moves on at the same module.
LEMMA SameModule ==
  ASSUME TypeInv, DoneInv, NEW p \in Procs, NEW r \in Run, Become(p, r), UNCHANGED <<toolset, lock>>,
         run[p].pc \in Working, r.pc \in Working,
         SameProgress(r, run[p]), r.mod = run[p].mod, r.todo = run[p].todo,
         \A k \in Pkgs \ {Key(p)} : cache'[k] = cache[k],
         Alone => InHand(r, cache'[Key(p)])
  PROVE  DoneInv'
<1>1. KeyOf(r) = Key(p) /\ r.pc \in Resolving
  BY DEF Key, KeyOf, SameProgress, Resolving
<1>2. run[p].pc \in Resolving /\ (Exclusive => r.mod \in r.todo \ r.replaced)
  BY Zenon, AtModule DEF SameProgress
<1> QED
  BY <1>1, <1>2, GoesOn

\* A replaced module is not settled, before and after.
LEMMA AddFromDirDone == ASSUME TypeInv, DoneInv, NEW p \in Procs, AddFromDir(p) PROVE DoneInv'
<1> DEFINE x == run[p]
<1>1. PICK m \in x.replaced : Become(p, [x EXCEPT !.todo = @ \ {m}])
  BY DEF AddFromDir
<1> DEFINE todo == x.todo \ {m}
           r == [x EXCEPT !.todo = todo]
<1>2. x \in Run /\ x.pc = "next" /\ todo \in SUBSET Modules
  BY Zenon DEF TypeInv, TypeOK, Run, AddFromDir
<1>3. Become(p, r)
  BY Zenon, <1>1, <1>2 DEF Run
<1>4. todo \cup x.replaced = x.todo \cup x.replaced
  OBVIOUS
<1> HIDE DEF todo
<1>5. r \in Run /\ r.pc = "next" /\ r.todo = todo /\ r.view = x.view /\ r.base = x.base /\ r.upd = x.upd
      /\ r.loaded = x.loaded /\ r.replaced = x.replaced
  BY ZenonT(60), <1>2 DEF Run
<1> HIDE DEF r
<1>6. SameProgress(r, x)
  BY <1>4, <1>5 DEF SameProgress
<1>7. x.pc \in Resolving /\ r.pc \in Resolving /\ r.pc \notin Working
  BY <1>2, <1>5 DEF Resolving, Working
<1>8. UNCHANGED <<toolset, lock, cache>>
  BY DEF AddFromDir, disk
<1> QED
  BY <1>3, <1>5, <1>6, <1>7, <1>8, GoesOn


\* A hit is an entry that is there and has the bytes that its metadata says.
LEMMA CheckCacheDone == ASSUME TypeInv, DoneInv, NEW p \in Procs, CheckCache(p) PROVE DoneInv'
<1> DEFINE x == run[p]
<1>1. PICK m \in x.todo \ x.replaced : CheckPackage(p, m, <<m, x.view[m]>>)
  BY DEF CheckCache
<1> DEFINE k == <<m, x.view[m]>>
           e == x.base[k]
           meta == KnownMetadata(k, e)
<1>2. x \in Run /\ m \in Modules /\ x.pc = "next" /\ x.pc \in Resolving
  BY Zenon DEF TypeInv, TypeOK, Run, CheckCache, Resolving
<1>3. k \in Pkgs /\ e \in Metadata \cup {None}
  BY Zenon, <1>2 DEF Run, Packages, Pkgs, Lock
<1>4. UNCHANGED <<toolset, lock, cache>>
  BY DEF CheckCache, disk
<1>5. CASE Hit(k, e)
  <2> DEFINE r == [x EXCEPT !.pc = "read manifest", !.mod = m, !.hit = TRUE, !.meta = meta]
  <2>1. Become(p, r)
    BY Zenon, <1>1, <1>5 DEF CheckPackage
  <2>2. meta \in Metadata
    <3>1. cache[k].archive \in Contents
      BY Zenon, <1>3, <1>5 DEF Hit, Has, TypeInv, TypeOK, Entry
    <3> QED
      BY Zenon, <1>3, <3>1 DEF KnownMetadata, Metadata
  <2>3. Has(cache[k]) /\ meta.archive = cache[k].archive
    BY <1>5 DEF Hit, KnownMetadata
  <2> HIDE DEF meta
  <2>4. r \in Run /\ r.pc = "read manifest" /\ r.mod = m /\ r.meta = meta /\ r.todo = x.todo
        /\ r.view = x.view /\ r.base = x.base /\ r.upd = x.upd /\ r.loaded = x.loaded /\ r.replaced = x.replaced
    BY ZenonT(60), <1>2, <2>2 DEF Run, PCs
  <2> HIDE DEF r
  <2>5. SameProgress(r, x) /\ r.pc \in Resolving /\ KeyOf(r) = k
    BY ZenonT(60), <2>4 DEF SameProgress, Resolving, Working, KeyOf
  <2>6. InHand(r, cache[k])
    BY ZenonT(60), <2>3, <2>4 DEF InHand
  <2> QED
    BY ZenonT(60), <1>2, <1>4, <2>1, <2>4, <2>5, <2>6, GoesOn
<1>6. CASE ~Hit(k, e)
  <2> DEFINE r == [x EXCEPT !.pc = "release", !.mod = m]
  <2>1. Become(p, r)
    BY <1>1, <1>6 DEF CheckPackage
  <2>2. r \in Run /\ r.pc = "release" /\ r.mod = m /\ r.todo = x.todo
        /\ r.view = x.view /\ r.base = x.base /\ r.upd = x.upd /\ r.loaded = x.loaded /\ r.replaced = x.replaced
    BY ZenonT(60), <1>2 DEF Run, PCs
  <2> HIDE DEF r
  <2>3. SameProgress(r, x) /\ r.pc \in Resolving
    BY <2>2 DEF SameProgress, Resolving, Working
  <2>4. InHand(r, cache[KeyOf(r)])
    BY <2>2 DEF InHand, Reading
  <2> QED
    BY ZenonT(60), <1>2, <1>4, <2>1, <2>2, <2>3, <2>4, GoesOn
<1> QED
  BY <1>5, <1>6

\* A step that has nothing in the cache yet.
LEMMA FetchStep ==
  ASSUME TypeInv, DoneInv, NEW p \in Procs, NEW r \in Run, Become(p, r), UNCHANGED disk,
         run[p].pc \in Working, r.pc \in {"clone", "tag", "open archive"},
         SameProgress(r, run[p]), r.mod = run[p].mod, r.todo = run[p].todo
  PROVE  DoneInv'
<1>1. InHand(r, cache[Key(p)]) /\ r.pc \in Working
  BY Zenon DEF InHand, Reading, Working
<1> QED
  BY ZenonT(60), <1>1, SameModule DEF disk

\* FetchRelease preserves DoneInv.
LEMMA FetchReleaseDone == ASSUME TypeInv, DoneInv, NEW p \in Procs, FetchRelease(p) PROVE DoneInv'
<1> DEFINE x == run[p]
           g == release[Key(p)]
           meta == [archive |-> g.archive, git |-> None, from |-> None]
           rc == [x EXCEPT !.pc = "clone"]
           mani == g.manifest
           rt == [x EXCEPT !.pc = "tag", !.mani = mani, !.meta = meta]
<1>1. x \in Run /\ x.pc \in Working
  BY DEF TypeInv, TypeOK, FetchRelease, Working
<1>2. g \in Release \cup {None}
  BY Zenon, <1>1, KeyType
<1>3. UNCHANGED disk
  BY DEF FetchRelease
<1>4. CASE Become(p, rc)
  <2>1. rc \in Run /\ rc.pc = "clone" /\ rc.mod = x.mod /\ rc.todo = x.todo /\ rc.view = x.view
        /\ rc.base = x.base /\ rc.upd = x.upd /\ rc.loaded = x.loaded /\ rc.replaced = x.replaced
    BY ZenonT(60), <1>1 DEF Run, PCs
  <2> HIDE DEF rc
  <2> QED
    BY Zenon, <1>1, <1>3, <1>4, <2>1, FetchStep DEF SameProgress
<1>5. CASE Fail(p, "source")
  BY Zenon, <1>3, <1>5, FailDone DEF disk
<1>6. CASE g # None /\ g.archive # None /\ g.manifest # None /\ Become(p, rt)
  <2>1. g.archive \in Archives /\ mani \in Archives
    BY <1>2, <1>6 DEF Release
  <2>2. meta \in Metadata
    BY <2>1 DEF Metadata, Contents
  <2>3. Become(p, rt)
    BY <1>6
  <2> HIDE DEF meta, mani
  <2>4. rt \in Run /\ rt.pc = "tag" /\ rt.mod = x.mod /\ rt.todo = x.todo /\ rt.view = x.view
        /\ rt.base = x.base /\ rt.upd = x.upd /\ rt.loaded = x.loaded /\ rt.replaced = x.replaced
    BY ZenonT(60), <1>1, <2>1, <2>2 DEF Run, PCs, Contents
  <2> HIDE DEF rt
  <2> QED
    BY ZenonT(60), <1>1, <1>3, <2>3, <2>4, FetchStep DEF SameProgress
<1> QED
  BY <1>4, <1>5, <1>6 DEF FetchRelease

\* A fetch result is kept or refused.
LEMMA FetchedDone ==
  ASSUME TypeInv, DoneInv, NEW p \in Procs, run[p].pc \in Working, UNCHANGED disk,
         NEW a \in Archives, NEW m \in Archives, NEW c \in Commits, NEW from \in Origins,
         Fetched(p, a, m, c, from)
  PROVE  DoneInv'
<1> DEFINE x == run[p]
           meta == [archive |-> a, git |-> c, from |-> from]
           r == [x EXCEPT !.pc = "open archive", !.meta = meta, !.mani = m]
<1>1. x \in Run
  BY DEF TypeInv, TypeOK
<1>2. meta \in Metadata
  BY DEF Metadata, LockEntry
<1>3. CASE Become(p, r)
  <2> HIDE DEF meta
  <2>1. r \in Run /\ r.pc = "open archive" /\ r.mod = x.mod /\ r.todo = x.todo /\ r.view = x.view
        /\ r.base = x.base /\ r.upd = x.upd /\ r.loaded = x.loaded /\ r.replaced = x.replaced
    BY ZenonT(60), <1>1, <1>2 DEF Run, PCs, Contents
  <2> HIDE DEF r
  <2> QED
    BY Zenon, <1>1, <1>3, <2>1, FetchStep DEF SameProgress
<1>4. CASE Fail(p, "mismatch")
  BY Zenon, <1>4, FailDone DEF disk
<1> QED
  BY Zenon, <1>3, <1>4 DEF Fetched

\* FetchTag and Clone preserve DoneInv.
LEMMA TagDone == ASSUME TypeInv, DoneInv, NEW p \in Procs, FetchTag(p) \/ Clone(p) PROVE DoneInv'
<1>1. run[p].pc \in Working /\ UNCHANGED disk
  BY ZenonT(60) DEF FetchTag, Clone, Working
<1>2. CASE tag[Key(p)] = None
  BY Zenon, <1>1, <1>2, FailDone DEF FetchTag, Clone, disk
<1>3. CASE tag[Key(p)] # None
  <2>1. tag[Key(p)] \in Commits /\ Build[tag[Key(p)]] \in Archives
    BY Zenon, <1>1, <1>3, KeyType, ResolveAssumption
  <2>2. CASE FetchTag(p)
    <3>1. run[p].meta.archive \in Archives /\ run[p].mani \in Archives
      BY <2>2 DEF TypeInv, RunShape, FetchTag
    <3>2. Fetched(p, run[p].meta.archive, run[p].mani, tag[Key(p)], "github-release")
      BY <1>3, <2>2 DEF FetchTag
    <3> QED
      BY Zenon, <1>1, <2>1, <3>1, <3>2, FetchedDone DEF Origins
  <2>3. CASE Clone(p)
    <3>1. Fetched(p, Build[tag[Key(p)]], Build[tag[Key(p)]], tag[Key(p)], "git-source")
      BY <1>3, <2>3 DEF Clone
    <3> QED
      BY Zenon, <1>1, <2>1, <3>1, FetchedDone DEF Origins
  <2> QED
    BY Zenon, <2>2, <2>3
<1> QED
  BY <1>2, <1>3


\* A step of Cache.Put changes one entry.
LEMMA PutStep ==
  ASSUME TypeInv, DoneInv, NEW p \in Procs, NEW r \in Run, Become(p, r), UNCHANGED <<toolset, lock>>,
         run[p].pc \in Working, r.pc \in Working, SameProgress(r, run[p]), r.mod = run[p].mod, r.todo = run[p].todo,
         NEW e, cache' = [cache EXCEPT ![Key(p)] = e],
         Alone => InHand(r, e)
  PROVE  DoneInv'
<1>1. Key(p) \in Pkgs /\ cache \in [Pkgs -> Entry]
  BY KeyType DEF TypeInv, TypeOK
<1>2. cache'[Key(p)] = e /\ \A k \in Pkgs \ {Key(p)} : cache'[k] = cache[k]
  BY Zenon, <1>1
<1> QED
  BY Zenon, <1>2, SameModule

\* The fields of a run that moves to program point c and has manifest mani in hand.
LEMMA MovedRun ==
  ASSUME NEW x \in Run, NEW c \in PCs, NEW mani \in Contents \cup {None}
  PROVE  LET r == [x EXCEPT !.pc = c, !.mani = mani]
         IN  /\ r \in Run /\ r.pc = c /\ r.mani = mani /\ r.meta = x.meta /\ r.mod = x.mod /\ r.todo = x.todo
             /\ SameProgress(r, x)
<1> DEFINE r == [x EXCEPT !.pc = c, !.mani = mani]
<1>1. r \in Run /\ r.pc = c /\ r.mani = mani /\ r.meta = x.meta
  BY ZenonT(60) DEF Run
<1>2. r.mod = x.mod /\ r.todo = x.todo /\ r.view = x.view /\ r.base = x.base /\ r.upd = x.upd
      /\ r.loaded = x.loaded /\ r.replaced = x.replaced
  BY ZenonT(60) DEF Run
<1> HIDE DEF r
<1>3. SameProgress(r, x)
  BY <1>2 DEF SameProgress
<1> QED
  BY Zenon, <1>1, <1>2, <1>3 DEF r

\* The same for a run that only moves.
LEMMA MovedOnly ==
  ASSUME NEW x \in Run, NEW c \in PCs
  PROVE  LET r == [x EXCEPT !.pc = c]
         IN  /\ r \in Run /\ r.pc = c /\ r.mani = x.mani /\ r.meta = x.meta /\ r.mod = x.mod /\ r.todo = x.todo
             /\ SameProgress(r, x)
<1> DEFINE r == [x EXCEPT !.pc = c]
<1>1. r \in Run /\ r.pc = c /\ r.mani = x.mani /\ r.meta = x.meta
  BY ZenonT(60) DEF Run
<1>2. r.mod = x.mod /\ r.todo = x.todo /\ r.view = x.view /\ r.base = x.base /\ r.upd = x.upd
      /\ r.loaded = x.loaded /\ r.replaced = x.replaced
  BY ZenonT(60) DEF Run
<1> HIDE DEF r
<1>3. SameProgress(r, x)
  BY <1>2 DEF SameProgress
<1> QED
  BY Zenon, <1>1, <1>2, <1>3 DEF r

\* The archive is emptied and then written: with one process, nobody has written to it in between.
LEMMA PutArchiveDone ==
  ASSUME TypeInv, DoneInv, NEW p \in Procs, OpenArchive(p) \/ WriteArchive(p) PROVE DoneInv'
<1> DEFINE x == run[p]
           o == cache[Key(p)]
<1>1. x \in Run /\ x.pc \in Working /\ UNCHANGED <<toolset, lock>> /\ x.meta \in LockEntry
  BY Zenon DEF TypeInv, TypeOK, OpenArchive, WriteArchive, Working, RunShape, Putting
<1>2. o \in Entry /\ (Alone => InHand(x, o))
  BY Zenon, <1>1, KeyType, AtModule
<1>3. CASE OpenArchive(p)
  <2> DEFINE r == [x EXCEPT !.pc = "write archive"]
             e == [o EXCEPT !.archive = Empty]
  <2>1. Become(p, r) /\ cache' = [cache EXCEPT ![Key(p)] = e]
    BY Zenon, <1>3 DEF OpenArchive
  <2>2. e.archive = Empty
    BY <1>2 DEF Entry
  <2>3. r \in Run /\ r.pc = "write archive" /\ r.mod = x.mod /\ r.todo = x.todo /\ SameProgress(r, x)
    BY ZenonT(60), <1>1, MovedOnly DEF PCs
  <2> HIDE DEF r, e
  <2>4. InHand(r, e) /\ r.pc \in Working
    BY Zenon, <2>2, <2>3 DEF InHand, Reading, Working
  <2> QED
    BY Zenon, <1>1, <2>1, <2>3, <2>4, PutStep
<1>4. CASE WriteArchive(p)
  <2> DEFINE r == [x EXCEPT !.pc = "open manifest"]
  <2>1. PICK c \in Overwrite(o.archive, x.meta.archive) : cache' = [cache EXCEPT ![Key(p)].archive = c]
    BY Zenon, <1>4 DEF WriteArchive
  <2> DEFINE e == [o EXCEPT !.archive = c]
  <2>2. Become(p, r) /\ cache' = [cache EXCEPT ![Key(p)] = e]
    BY Zenon, <1>4, <2>1 DEF WriteArchive
  <2>3. Alone => c = x.meta.archive
    BY Zenon, <1>2, <1>4, <2>1 DEF WriteArchive, InHand, Overwrite
  <2>4. e.archive = c
    BY <1>2 DEF Entry
  <2>5. r \in Run /\ r.pc = "open manifest" /\ r.meta = x.meta /\ r.mod = x.mod /\ r.todo = x.todo
        /\ SameProgress(r, x)
    BY ZenonT(60), <1>1, MovedOnly DEF PCs
  <2> HIDE DEF r, e
  <2>6. (Alone => InHand(r, e)) /\ r.pc \in Working
    BY Zenon, <2>3, <2>4, <2>5 DEF InHand, Reading, Working
  <2> QED
    BY Zenon, <1>1, <2>2, <2>5, <2>6, PutStep
<1> QED
  BY <1>3, <1>4

\* So are the manifest and the info file.
LEMMA PutManifestDone ==
  ASSUME TypeInv, DoneInv, NEW p \in Procs, OpenManifest(p) \/ WriteManifest(p) PROVE DoneInv'
<1> DEFINE x == run[p]
           o == cache[Key(p)]
<1>1. x \in Run /\ x.pc \in Working /\ UNCHANGED <<toolset, lock>> /\ x.pc \in {"open manifest", "write manifest"}
  BY Zenon DEF TypeInv, TypeOK, OpenManifest, WriteManifest, Working
<1>2. o \in Entry /\ (Alone => InHand(x, o))
  BY Zenon, <1>1, KeyType, AtModule
<1>3. Alone => o.archive = x.meta.archive
  BY ZenonT(60), <1>1, <1>2 DEF InHand
<1>4. CASE OpenManifest(p)
  <2> DEFINE r == [x EXCEPT !.pc = "write manifest"]
             e == [o EXCEPT !.manifest = Empty]
  <2>1. Become(p, r) /\ cache' = [cache EXCEPT ![Key(p)] = e]
    BY Zenon, <1>4 DEF OpenManifest
  <2>2. e.manifest = Empty /\ e.archive = o.archive
    BY <1>2 DEF Entry
  <2>3. r \in Run /\ r.pc = "write manifest" /\ r.meta = x.meta /\ r.mod = x.mod /\ r.todo = x.todo
        /\ SameProgress(r, x)
    BY ZenonT(60), <1>1, MovedOnly DEF PCs
  <2> HIDE DEF r, e
  <2>4. (Alone => InHand(r, e)) /\ r.pc \in Working
    BY Zenon, <1>3, <2>2, <2>3 DEF InHand, Reading, Working
  <2> QED
    BY Zenon, <1>1, <2>1, <2>3, <2>4, PutStep
<1>5. CASE WriteManifest(p)
  <2> DEFINE r == [x EXCEPT !.pc = "write info"]
  <2>1. PICK c \in Overwrite(o.manifest, x.mani) : cache' = [cache EXCEPT ![Key(p)].manifest = c]
    BY Zenon, <1>5 DEF WriteManifest
  <2> DEFINE e == [o EXCEPT !.manifest = c]
  <2>2. Become(p, r) /\ cache' = [cache EXCEPT ![Key(p)] = e]
    BY Zenon, <1>5, <2>1 DEF WriteManifest
  <2>3. Alone => c = x.mani
    BY Zenon, <1>2, <1>5, <2>1 DEF WriteManifest, InHand, Overwrite
  <2>4. e.manifest = c /\ e.archive = o.archive
    BY <1>2 DEF Entry
  <2>5. r \in Run /\ r.pc = "write info" /\ r.meta = x.meta /\ r.mani = x.mani /\ r.mod = x.mod
        /\ r.todo = x.todo /\ SameProgress(r, x)
    BY ZenonT(60), <1>1, MovedOnly DEF PCs
  <2> HIDE DEF r, e
  <2>6. (Alone => InHand(r, e)) /\ r.pc \in Working
    BY Zenon, <1>3, <2>3, <2>4, <2>5 DEF InHand, Reading, Working
  <2> QED
    BY Zenon, <1>1, <2>2, <2>5, <2>6, PutStep
<1> QED
  BY <1>4, <1>5

\* With the info file the entry is there.
LEMMA WriteInfoDone == ASSUME TypeInv, DoneInv, NEW p \in Procs, WriteInfo(p) PROVE DoneInv'
<1> DEFINE x == run[p]
           o == cache[Key(p)]
           r == [x EXCEPT !.pc = "read manifest", !.mani = None]
           e == [o EXCEPT !.info = TRUE]
<1>1. x \in Run /\ x.pc \in Working /\ UNCHANGED <<toolset, lock>>
  BY Zenon DEF TypeInv, TypeOK, WriteInfo, Working
<1>2. x.meta \in LockEntry /\ x.mani \in Archives
  BY ZenonT(60) DEF TypeInv, WriteInfo, RunShape, Putting
<1>3. x.meta.archive # None /\ x.mani # None
  BY <1>2, CacheAssumption DEF LockEntry
<1>4. o \in Entry /\ (Alone => InHand(x, o))
  BY Zenon, <1>1, KeyType, AtModule
<1>5. Alone => o.archive = x.meta.archive /\ o.manifest = x.mani
  BY Zenon, <1>4 DEF InHand, WriteInfo
<1>6. Become(p, r) /\ cache' = [cache EXCEPT ![Key(p)] = e]
  BY Zenon DEF WriteInfo
<1>7. e.archive = o.archive /\ e.manifest = o.manifest /\ e.info
  BY <1>4 DEF Entry
<1>8. r \in Run /\ r.pc = "read manifest" /\ r.meta = x.meta /\ r.mod = x.mod /\ r.todo = x.todo
      /\ SameProgress(r, x)
  <2>1. r \in Run /\ r.pc = "read manifest" /\ r.meta = x.meta /\ r.mod = x.mod /\ r.todo = x.todo
        /\ r.view = x.view /\ r.base = x.base /\ r.upd = x.upd /\ r.loaded = x.loaded /\ r.replaced = x.replaced
    BY ZenonT(60), <1>1 DEF Run, PCs
  <2> HIDE DEF r
  <2> QED
    BY Zenon, <2>1 DEF SameProgress
<1> HIDE DEF r, e
<1>9. (Alone => InHand(r, e)) /\ r.pc \in Working
  BY ZenonT(60), <1>3, <1>5, <1>7, <1>8 DEF InHand, Reading, Working, Has
<1> QED
  BY ZenonT(60), <1>1, <1>6, <1>8, <1>9, PutStep

\* ReadManifest preserves DoneInv.
LEMMA ReadManifestDone == ASSUME TypeInv, DoneInv, NEW p \in Procs, ReadManifest(p) PROVE DoneInv'
<1> DEFINE x == run[p]
           o == cache[Key(p)]
           m == o.manifest
           r == [x EXCEPT !.pc = "read archive", !.mani = m]
<1>1. x \in Run /\ x.pc \in Working /\ x.pc \in Reading /\ UNCHANGED <<toolset, lock, cache>>
  BY Zenon DEF TypeInv, TypeOK, ReadManifest, Working, Reading, disk
<1>2. o \in Entry /\ (Alone => InHand(x, o))
  BY Zenon, <1>1, KeyType, AtModule
<1>3. m \in Contents \cup {None}
  BY <1>2 DEF Entry
<1>4. Become(p, r)
  BY ZenonT(60) DEF ReadManifest
<1>5. Alone => o.archive = x.meta.archive /\ Has(o)
  BY Zenon, <1>1, <1>2 DEF InHand
<1> HIDE DEF m
<1>6. r \in Run /\ r.pc = "read archive" /\ r.mani = m /\ r.meta = x.meta /\ r.mod = x.mod /\ r.todo = x.todo
      /\ SameProgress(r, x)
  BY ZenonT(60), <1>1, <1>3, MovedRun DEF PCs
<1> HIDE DEF r
<1>7. (Alone => InHand(r, o)) /\ r.pc \in Working
  BY Zenon, <1>5, <1>6 DEF InHand, Working, m
<1> QED
  BY ZenonT(60), <1>1, <1>4, <1>6, <1>7, SameModule


\* The package is settled: it is loaded, its entry is in the updated lock, and with one
\* process both are what the cache holds.
LEMMA ReadArchiveDone == ASSUME TypeInv, DoneInv, NEW p \in Procs, ReadArchive(p) PROVE DoneInv'
<1> DEFINE x == run[p]
           k == Key(p)
           m == x.mod
           o == cache[k]
           a == o.archive
           e == x.meta
           todo == x.todo \ {m}
           loaded == [x.loaded EXCEPT ![m] = a]
           upd == [x.upd EXCEPT ![k] = e]
           r == [x EXCEPT !.pc = "next", !.todo = todo, !.loaded = loaded, !.upd = upd,
                          !.mod = None, !.hit = FALSE, !.meta = None, !.mani = None]
<1>1. x \in Run /\ x.pc \in Working /\ m \in Modules /\ e \in Metadata /\ e # None /\ x.pc = "read archive"
  BY Zenon DEF TypeInv, TypeOK, ReadArchive, RunShape, Reading, Working, Run
<1>2. /\ k \in Pkgs /\ k = <<m, x.view[m]>> /\ x.pc \in Resolving
      /\ (Exclusive => m \in x.todo \ x.replaced) /\ (Alone => InHand(x, o))
  BY Zenon, <1>1, AtModule DEF KeyOf
<1>3. UNCHANGED <<toolset, lock, cache>>
  BY ZenonT(60) DEF ReadArchive, disk
<1>4. CASE Intact(x.mani, a)
  <2>1. Become(p, r)
    BY Zenon, <1>1, <1>4 DEF ReadArchive, Run
  <2>2. a \in Archives /\ a # None
    BY <1>4, CacheAssumption DEF Intact
  <2>3. Exclusive => Committed(x, toolset[File[p]], lock[File[p]])
    BY DEF DoneInv
  <2>4. Alone => Warm(x, cache) /\ o.archive = e.archive /\ Has(o) /\ Intact(o.manifest, o.archive)
    BY Zenon, <1>1, <1>2, <1>4 DEF DoneInv, InHand, Reading
  <2> HIDE DEF x, k, m, o
  <2>5. todo \in SUBSET Modules /\ loaded \in [Modules -> Archives \cup {None}] /\ upd \in Lock
    BY Zenon, <1>1, <1>2, <2>2 DEF Run, Lock
  <2>6. upd[k] = e /\ \A j \in Pkgs \ {k} : upd[j] = x.upd[j]
    BY Zenon, <1>1, <1>2 DEF Run, Lock
  <2>7. loaded[m] = a /\ \A n \in Modules \ {m} : loaded[n] = x.loaded[n]
    BY Zenon, <1>1 DEF Run
  <2> HIDE DEF todo, loaded, upd
  <2>8. r \in Run /\ r.pc = "next" /\ r.base = x.base /\ r.upd = upd /\ r.todo = todo /\ r.loaded = loaded
        /\ r.view = x.view /\ r.replaced = x.replaced
    BY ZenonT(60), <1>1, <2>5 DEF Run, PCs
  <2> HIDE DEF r
  <2>9. r.pc \in Resolving /\ r.pc \notin Working
    BY ZenonT(60), <2>8 DEF Resolving, Working
  <2>10. \A n \in Settled(r) : n = m \/ n \in Settled(x) \ {m}
    BY <2>8 DEF Settled, todo
  <2>11. \A n \in Settled(x) \ {m} : n \in Modules \ {m} /\ <<n, x.view[n]>> \in Pkgs \ {k}
    BY ZenonT(60), <1>1, <1>2 DEF Settled, Run, Packages, Pkgs
  <2>12. Exclusive => m \in Settled(r) /\ Settled(x) \subseteq Settled(r)
    BY ZenonT(60), <1>1, <1>2, <2>8 DEF Settled, todo
  <2>13. Exclusive => Committed(r, toolset'[File[p]], lock'[File[p]])
    <3> SUFFICES ASSUME Exclusive PROVE Committed(r, toolset[File[p]], lock[File[p]])
      BY <1>3
    <3>1. toolset[File[p]] = x.view /\ Taken(x)
      BY ZenonT(60), <1>1, <1>2, <2>3 DEF Committed
    <3>2. ASSUME NEW n \in Settled(r) PROVE r.upd[<<n, r.view[n]>>] # None /\ r.loaded[n] # None
      <4>1. CASE n = m
        BY ZenonT(60), <1>1, <1>2, <2>2, <2>6, <2>7, <2>8, <4>1
      <4>2. CASE n \in Settled(x) \ {m}
        <5>1. x.upd[<<n, x.view[n]>>] # None /\ x.loaded[n] # None
          BY <3>1, <4>2 DEF Taken
        <5> QED
          BY ZenonT(60), <2>6, <2>7, <2>8, <2>11, <4>2, <5>1
      <4> QED
        BY <2>10, <4>1, <4>2
    <3>3. ASSUME NEW j \in Pkgs, r.upd[j] # r.base[j] PROVE \E n \in Settled(r) : j = <<n, r.view[n]>>
      <4>1. CASE j = k
        BY <1>2, <2>8, <2>12, <4>1
      <4>2. CASE j # k
        <5>1. \E n \in Settled(x) : j = <<n, x.view[n]>>
          BY ZenonT(60), <2>6, <2>8, <3>1, <3>3, <4>2 DEF Taken
        <5> QED
          BY <2>8, <2>12, <5>1
      <4> QED
        BY <4>1, <4>2
    <3>4. Taken(r)
      BY <3>2, <3>3 DEF Taken
    <3> QED
      BY <2>8, <2>9, <3>1, <3>4 DEF Committed
  <2>14. Alone => Warm(r, cache')
    <3> SUFFICES ASSUME Alone PROVE Warm(r, cache)
      BY <1>3
    <3>1. ASSUME NEW n \in Settled(r) PROVE Stored(r, n, cache[<<n, r.view[n]>>])
      <4>1. CASE n = m
        <5>1. <<n, r.view[n]>> = k /\ r.loaded[n] = a /\ r.upd[k] = e
          BY <1>2, <2>6, <2>7, <2>8, <4>1
        <5> QED
          BY Zenon, <2>4, <5>1 DEF Stored, o
      <4>2. CASE n \in Settled(x) \ {m}
        <5> DEFINE j == <<n, x.view[n]>>
        <5>1. Stored(x, n, cache[j])
          BY Zenon, <1>2, <2>4, <4>2 DEF Warm
        <5>2. r.upd[j] = x.upd[j] /\ r.loaded[n] = x.loaded[n] /\ <<n, r.view[n]>> = j
          BY <2>6, <2>7, <2>8, <2>11, <4>2
        <5> HIDE DEF j
        <5> QED
          BY ZenonT(60), <5>1, <5>2 DEF Stored, j
      <4> QED
        BY ZenonT(60), <2>10, <4>1, <4>2
    <3> QED
      BY <2>9, <3>1 DEF Warm
  <2> QED
    BY <1>3, <2>1, <2>8, <2>13, <2>14, OneRun
<1>5. CASE ~Intact(x.mani, a)
  <2>1. PICK w \in {"hit load", "load"} : Fail(p, w)
    BY Zenon, <1>5 DEF ReadArchive
  <2> QED
    BY Zenon, <1>3, <2>1, FailDone
<1> QED
  BY <1>4, <1>5

\* Nothing is settled when the lockfile has just been read.
LEMMA LoadLockDone == ASSUME TypeInv, DoneInv, NEW p \in Procs, LoadLock(p) PROVE DoneInv'
<1> DEFINE x == run[p]
           l == lock[File[p]]
           o == overlay[File[p]]
           r == [x EXCEPT !.pc = "next", !.base = l, !.upd = l, !.replaced = o, !.todo = Modules]
<1>1. x \in Run /\ l \in [Pkgs -> LockEntry \cup {None}] /\ o \in SUBSET Modules
  BY ResolveAssumption DEF TypeInv, TypeOK
<1>2. l \in Lock
  BY <1>1 DEF Lock, Metadata
<1>3. Become(p, r) /\ UNCHANGED <<toolset, lock, cache>>
  BY DEF LoadLock, disk
<1>4. Exclusive => toolset[File[p]] = x.view
  BY DEF LoadLock, DoneInv, Committed
<1> HIDE DEF l, o
<1>5. r \in Run /\ r.pc = "next" /\ r.base = l /\ r.upd = l /\ r.todo = Modules /\ r.view = x.view
  BY ZenonT(60), <1>1, <1>2 DEF Run, PCs
<1> HIDE DEF r
<1>6. Settled(r) = {} /\ r.pc \notin Working
  BY <1>5 DEF Settled, Working
<1>7. Exclusive => Committed(r, toolset'[File[p]], lock'[File[p]])
  BY <1>3, <1>4, <1>5, <1>6 DEF Committed, Taken
<1>8. Warm(r, cache')
  BY <1>6 DEF Warm
<1> QED
  BY ZenonT(60), <1>3, <1>5, <1>7, <1>8, OneRun

\* The updated lock is what is on disk once the run is done.
LEMMA CommitDone == ASSUME TypeInv, DoneInv, NEW p \in Procs, Commit(p) PROVE DoneInv'
<1> DEFINE x == run[p]
           r == [x EXCEPT !.pc = "done"]
<1>1. x \in Run /\ x.pc = "next" /\ x.todo = {} /\ UNCHANGED <<toolset, cache>>
  BY Zenon DEF TypeInv, TypeOK, Commit
<1>2. CASE lock' = [lock EXCEPT ![File[p]] = x.upd] /\ Become(p, r)
  <2>1. lock'[File[p]] = x.upd /\ \A t \in Toolsets \ {File[p]} : lock'[t] = lock[t]
    BY <1>2, ResolveAssumption DEF TypeInv, TypeOK
  <2>2. r \in Run /\ r.pc = "done" /\ r.todo = x.todo /\ SameProgress(r, x)
    BY ZenonT(60), <1>1, MovedOnly DEF PCs
  <2> HIDE DEF r
  <2>3. x.pc \in Resolving /\ r.pc \notin Working /\ Settled(r) = Settled(x)
    BY <1>1, <2>2 DEF Resolving, Working, Settled, SameProgress
  <2>4. Exclusive => Committed(r, toolset'[File[p]], lock'[File[p]])
    <3> SUFFICES ASSUME Exclusive PROVE Committed(r, toolset[File[p]], x.upd)
      BY ZenonT(60), <1>1, <2>1
    <3>1. toolset[File[p]] = x.view /\ Taken(x)
      BY <1>1, <2>3 DEF DoneInv, Committed
    <3>2. Taken(r)
      BY Zenon, <2>2, <3>1, SameTaken
    <3> QED
      BY <1>1, <2>2, <2>3, <3>1, <3>2 DEF Committed, SameProgress
  <2>5. Alone => Warm(r, cache')
    <3> SUFFICES ASSUME Alone, NEW m \in Settled(r) PROVE Stored(r, m, cache[<<m, r.view[m]>>])
      BY Zenon, <1>1, <2>3 DEF Warm
    <3>1. Stored(x, m, cache[<<m, x.view[m]>>])
      BY Zenon, <2>3 DEF DoneInv, Warm
    <3>2. r.view = x.view
      BY <2>2 DEF SameProgress
    <3> QED
      BY Zenon, <2>2, <3>1, <3>2, SameStored
  <2> QED
    BY ZenonT(60), <1>1, <1>2, <2>1, <2>2, <2>4, <2>5, OneRun
<1>3. CASE Fail(p, "lock") /\ UNCHANGED lock
  BY ZenonT(60), <1>1, <1>3, FailDone
<1> QED
  BY Zenon, <1>2, <1>3 DEF Commit

\* Nothing has been done at first.
LEMMA DoneInit == Init => DoneInv
<1> SUFFICES ASSUME Init, NEW p \in Procs
             PROVE  Committed(run[p], toolset[File[p]], lock[File[p]]) /\ Warm(run[p], cache)
  BY DEF DoneInv
<1>1. run[p].pc = "idle"
  BY ZenonT(60) DEF Init, Fresh
<1> QED
  BY Zenon, <1>1 DEF Committed, Warm, Resolving, Working

\* Every step preserves DoneInv.
LEMMA DoneNext == TypeInv /\ DoneInv /\ [Next]_vars => DoneInv'
<1> SUFFICES ASSUME TypeInv, DoneInv, [Next]_vars PROVE DoneInv'
  OBVIOUS
<1>1. ASSUME NEW p \in Procs, Step(p) PROVE DoneInv'
  BY ZenonT(60), <1>1, UpgradeDone, LoadLockDone, AddFromDirDone, CheckCacheDone, FetchReleaseDone, TagDone,
     PutArchiveDone, PutManifestDone, WriteInfoDone, ReadManifestDone, ReadArchiveDone, CommitDone
     DEF Step, Fetch, Put, Load
<1>2. ASSUME NEW p \in Procs, Abort(p) PROVE DoneInv'
  BY ZenonT(60), <1>2, FailDone DEF Abort, disk
<1>3. ASSUME UNCHANGED <<run, toolset, lock, cache>> PROVE DoneInv'
  BY <1>3 DEF DoneInv, Exclusive, Alone
<1>4. CASE World
  BY <1>3, <1>4 DEF World, EditRelease, MoveTag, EditOverlay, disk
<1>5. CASE UNCHANGED vars
  BY <1>3, <1>5 DEF vars
<1> QED
  BY <1>1, <1>2, <1>4, <1>5, StartDone DEF Next


\* When no two processes share a toolset file, a run that reports success leaves there the
\* versions that it resolved, and in the lockfile its own entries, one for every package
\* that is not replaced, however many processes, packages and upstream edits there are
\* and wherever earlier runs were cut short.
THEOREM SuccessIsLocked == Exclusive => (Spec => []SuccessMeansLocked)
<1> SUFFICES ASSUME Exclusive PROVE Spec => []SuccessMeansLocked
  OBVIOUS
<1>1. DoneInv => SuccessMeansLocked
  <2> SUFFICES ASSUME DoneInv, NEW p \in Procs, run[p].pc = "done"
               PROVE  /\ toolset[File[p]] = run[p].view /\ lock[File[p]] = run[p].upd
                      /\ \A k \in Resolved(p) : lock[File[p]][k] # None
    BY Zenon DEF SuccessMeansLocked
  <2>1. toolset[File[p]] = run[p].view /\ lock[File[p]] = run[p].upd /\ run[p].todo = {} /\ Taken(run[p])
    BY Zenon DEF DoneInv, Committed
  <2>2. Settled(run[p]) = Modules \ run[p].replaced
    BY Zenon, <2>1 DEF Settled
  <2> QED
    BY ZenonT(60), <2>1, <2>2 DEF Taken, Resolved
<1> QED
  BY <1>1, TypeInit, TypeNext, DoneInit, DoneNext, PTL DEF Spec

\* An entry of a lockfile changes only when a run commits that has loaded the package,
\* and only for a package that the overlay does not replace.
LEMMA OnlySuccessLocks ==
  ASSUME TypeInv, TypeInv', LockInv, DoneInv, Exclusive, [Next]_vars,
         NEW t \in Toolsets, NEW k \in Pkgs, lock'[t][k] # lock[t][k]
  PROVE  \E p \in Procs : /\ File[p] = t /\ run[p].pc = "next" /\ run'[p].pc = "done"
                          /\ k \in Resolved(p) /\ run[p].loaded[k[1]] # None
<1>1. PICK p \in Procs : Commit(p) /\ lock' = [lock EXCEPT ![File[p]] = run[p].upd]
  BY OnlyCommitLocks
<1> DEFINE x == run[p]
<1>2. x \in Run /\ x.pc = "next" /\ x.todo = {} /\ x.pc \in Resolving
  BY Zenon, <1>1 DEF TypeInv, TypeOK, Commit, Resolving
<1>3. t = File[p] /\ lock'[t] = x.upd
  BY <1>1 DEF TypeInv, TypeOK
<1>4. x.upd[k] # x.base[k]
  BY ZenonT(60), <1>2, <1>3 DEF LockInv, Pinned
<1>5. Taken(x)
  BY Zenon, <1>2 DEF DoneInv, Committed
<1>6. PICK m \in Settled(x) : k = <<m, x.view[m]>>
  BY <1>4, <1>5 DEF Taken
<1>7. m \in Modules \ x.replaced /\ x.loaded[m] # None
  BY Zenon, <1>5, <1>6 DEF Settled, Taken
<1>8. run'[p].pc = "done"
  <2>1. CASE Become(p, [x EXCEPT !.pc = "done"])
    BY ZenonT(60), <1>2, <2>1 DEF Become, TypeInv, TypeOK, Run
  <2>2. CASE UNCHANGED lock
    BY Zenon, <2>2
  <2> QED
    BY ZenonT(60), <1>1, <2>1, <2>2 DEF Commit
<1>9. k \in Resolved(p) /\ k[1] = m
  BY <1>6, <1>7 DEF Resolved
<1> QED
  BY Zenon, <1>2, <1>3, <1>7, <1>8, <1>9

\* The lockfile of a process changes only when its run succeeds, and only at the packages
\* that this run has resolved from the registry.
THEOREM OnlySuccessChangesLock == Exclusive => (Spec => LockChangesOnlyOnSuccess)
<1> SUFFICES ASSUME Exclusive PROVE Spec => LockChangesOnlyOnSuccess
  OBVIOUS
<1> DEFINE A == \A t \in Toolsets, k \in Pkgs : lock'[t][k] # lock[t][k] =>
                  \E p \in Procs : /\ File[p] = t
                                   /\ run[p].pc = "next" /\ run'[p].pc = "done"
                                   /\ k \in Resolved(p)
                                   /\ run[p].loaded[k[1]] # None
<1>1. TypeInv /\ TypeInv' /\ LockInv /\ DoneInv /\ [Next]_vars => [A]_vars
  BY OnlySuccessLocks
<1> QED
  BY <1>1, TypeInit, TypeNext, LockInit, LockNext, DoneInit, DoneNext, PTL DEF Spec, LockChangesOnlyOnSuccess

\* A process that has the cache to itself hands to the builder the archives that its
\* lockfile pins.
THEOREM LoadsWhatIsPinned == Alone => (Spec => []LoadedMatchesPin)
<1> SUFFICES ASSUME Alone PROVE Spec => []LoadedMatchesPin
  OBVIOUS
<1>1. DoneInv => LoadedMatchesPin
  <2> SUFFICES ASSUME DoneInv, NEW p \in Procs, run[p].pc = "done", NEW m \in Modules \ run[p].replaced
               PROVE  run[p].loaded[m] = run[p].upd[<<m, run[p].view[m]>>].archive
    BY Zenon DEF LoadedMatchesPin
  <2>1. run[p].todo = {}
    BY ZenonT(60) DEF DoneInv, Committed, Alone, Exclusive
  <2>2. m \in Settled(run[p])
    BY <2>1 DEF Settled
  <2> QED
    BY ZenonT(60), <2>2 DEF DoneInv, Warm, Stored
<1> QED
  BY <1>1, TypeInit, TypeNext, DoneInit, DoneNext, PTL DEF Spec

\* It leaves those archives whole in the cache, whatever a run that was cut short had left
\* there before.
THEOREM CacheIsWarm == Alone => (Spec => []SuccessLeavesCacheWarm)
<1> SUFFICES ASSUME Alone PROVE Spec => []SuccessLeavesCacheWarm
  OBVIOUS
<1>1. DoneInv => SuccessLeavesCacheWarm
  <2> SUFFICES ASSUME DoneInv, NEW p \in Procs, run[p].pc = "done", NEW k \in Resolved(p)
               PROVE  /\ Has(cache[k]) /\ Intact(cache[k].manifest, cache[k].archive)
                      /\ cache[k].archive = lock[File[p]][k].archive
    BY ZenonT(60) DEF SuccessLeavesCacheWarm
  <2>1. run[p].todo = {} /\ lock[File[p]] = run[p].upd
    BY DEF DoneInv, Committed, Alone, Exclusive
  <2>2. PICK m \in Modules \ run[p].replaced : k = <<m, run[p].view[m]>>
    BY DEF Resolved
  <2>3. m \in Settled(run[p])
    BY Zenon, <2>1, <2>2 DEF Settled
  <2>4. Stored(run[p], m, cache[k])
    BY <2>2, <2>3 DEF DoneInv, Warm
  <2> QED
    BY Zenon, <2>1, <2>2, <2>4 DEF Stored
<1> QED
  BY <1>1, TypeInit, TypeNext, DoneInit, DoneNext, PTL DEF Spec

=============================================================================
