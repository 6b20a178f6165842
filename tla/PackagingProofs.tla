-------------------------- MODULE PackagingProofs --------------------------
(***************************************************************************)
(* Theorems about Packaging for any packers, sources and bounds: whatever  *)
(* Packs write over one another and wherever they stop, what LoadArchive   *)
(* accepts was built by one Pack, has a known effect if nobody edited the  *)
(* directory meanwhile, and what a Pack wrote alone is accepted.           *)
(***************************************************************************)
EXTENDS Packaging, TLAPS

BuiltStates == {"built"} \cup Writing

\* A Pack that has built holds what it has built until it ends.
HoldsOne(r, M) ==
  r.at \in BuiltStates =>
    \E dev, m : /\ m \in M /\ m.archive.whole /\ m.archive.pkg = m.pkg
                /\ r = [at |-> r.at, dev |-> dev, pkg |-> m.pkg, archive |-> m.archive]

Holding == \A p \in Packers : HoldsOne(packer[p], made)

\* An archive that is whole was built, from the package inside it.
Kept == out.archive.whole => \E m \in made : m.archive = out.archive /\ m.pkg = out.archive.pkg

OutputShape == \E a, m : out = [archive |-> a, manifest |-> m]

Inv ==
  /\ DOMAIN packer = Packers /\ packer = [p \in Packers |-> packer[p]]
  /\ OutputShape
  /\ Holding /\ Kept /\ LoadedFromOnePack

\* An empty output directory satisfies the invariant.
LEMMA InvInit == Init => Inv
<1> SUFFICES ASSUME Init PROVE Inv
  OBVIOUS
<1>1. packer = [p \in Packers |-> Idle] /\ DOMAIN packer = Packers
  BY DEF Init
<1>2. Holding
  BY <1>1 DEF Holding, HoldsOne, Idle, BuiltStates, Writing
<1>3. OutputShape /\ Kept
  BY Zenon DEF Init, OutputShape, Kept, Torn
<1>4. ~Loaded
  BY DEF Init, Loaded, Idle
<1> QED
  BY <1>1, <1>2, <1>3, <1>4 DEF Inv, LoadedFromOnePack

\* One packer moves on, and what has been built stays built.
LEMMA PackerStep ==
  ASSUME Inv, NEW p \in Packers, NEW r, packer' = [packer EXCEPT ![p] = r],
         made \subseteq made', HoldsOne(r, made')
  PROVE  /\ DOMAIN packer' = Packers /\ packer' = [q \in Packers |-> packer'[q]]
         /\ Holding'
<1>1. DOMAIN packer' = Packers /\ packer' = [q \in Packers |-> packer'[q]]
  BY DEF Inv
<1>2. packer'[p] = r /\ \A q \in Packers \ {p} : packer'[q] = packer[q]
  BY DEF Inv
<1>3. ASSUME NEW q \in Packers PROVE HoldsOne(packer'[q], made')
  <2>1. CASE q = p
    BY <1>2, <2>1
  <2>2. CASE q # p
    <3>1. HoldsOne(packer[q], made) /\ packer'[q] = packer[q]
      BY <1>2, <2>2 DEF Inv, Holding
    <3> QED
      BY ZenonT(60), <3>1 DEF HoldsOne
  <2> QED
    BY <2>1, <2>2
<1> QED
  BY <1>1, <1>3 DEF Holding

\* What is loaded stays as good as it was while the loader rests.
LEMMA LoaderRests ==
  ASSUME Inv, UNCHANGED loader, made \subseteq made'
  PROVE  LoadedFromOnePack'
  BY DEF Inv, LoadedFromOnePack, Loaded

\* Reading the package, and the end of a Pack.
LEMMA ReadInv ==
  ASSUME Inv, NEW p \in Packers, ReadDev(p) \/ LoadDir(p) \/ Stop(p) PROVE Inv'
<1>1. UNCHANGED <<out, loader, made>>
  BY DEF ReadDev, LoadDir, Stop, ghosts
<1>2. ASSUME NEW r, r.at \notin BuiltStates, packer' = [packer EXCEPT ![p] = r] PROVE Inv'
  <2>1. HoldsOne(r, made')
    BY <1>2 DEF HoldsOne
  <2>2. /\ DOMAIN packer' = Packers /\ packer' = [q \in Packers |-> packer'[q]]
        /\ Holding'
    BY Zenon, <1>1, <1>2, <2>1, PackerStep
  <2>3. OutputShape' /\ Kept'
    BY Zenon, <1>1 DEF Inv, OutputShape, Kept
  <2> QED
    BY <1>1, <2>2, <2>3, LoaderRests DEF Inv
<1>3. CASE ReadDev(p)
  <2> DEFINE r == IF ParseDev(src) THEN [at |-> "parsed", dev |-> src] ELSE [at |-> "refused", dev |-> src]
  <2>1. packer' = [packer EXCEPT ![p] = r]
    BY <1>3 DEF ReadDev
  <2>2. r.at \notin BuiltStates
    BY DEF BuiltStates, Writing
  <2> QED
    BY Zenon, <1>2, <2>1, <2>2
<1>4. CASE LoadDir(p)
  <2> DEFINE dev == packer[p].dev
             pkg == EnrichToolMetadata(Compile(dev), TagOf(dev.entry))
             r == IF ValidateCompiled(pkg)
                  THEN [at |-> "loaded", dev |-> dev, pkg |-> pkg] ELSE [at |-> "refused", dev |-> dev]
  <2>1. packer' = [packer EXCEPT ![p] = r]
    BY <1>4 DEF LoadDir
  <2>2. r.at \notin BuiltStates
    BY DEF BuiltStates, Writing
  <2> QED
    BY Zenon, <1>2, <2>1, <2>2
<1>5. CASE Stop(p)
  <2>1. Idle.at \notin BuiltStates
    BY DEF BuiltStates, Writing, Idle
  <2> QED
    BY Zenon, <1>2, <1>5, <2>1 DEF Stop
<1> QED
  BY <1>3, <1>4, <1>5

\* Building the archive.
LEMMA BuildInv == ASSUME Inv, NEW p \in Packers, Build(p) PROVE Inv'
<1> DEFINE a == [whole |-> TRUE, pkg |-> packer[p].pkg, tag |-> TagOf(packer[p].pkg.entry)]
           m == [pkg |-> packer[p].pkg, archive |-> a, steady |-> p \in steady]
           r == [at |-> "built", dev |-> packer[p].dev, pkg |-> packer[p].pkg, archive |-> a]
<1>1. packer' = [packer EXCEPT ![p] = r] /\ made' = made \cup {m} /\ UNCHANGED <<out, loader>>
  BY DEF Build
<1>2. HoldsOne(r, made')
  <2>1. m \in made'
    BY <1>1
  <2>2. m.archive = a /\ m.pkg = packer[p].pkg /\ a.whole /\ a.pkg = packer[p].pkg
    OBVIOUS
  <2>3. r = [at |-> r.at, dev |-> packer[p].dev, pkg |-> m.pkg, archive |-> m.archive]
    OBVIOUS
  <2>4. m.archive.whole /\ m.archive.pkg = m.pkg
    BY <2>2
  <2> HIDE DEF m, r
  <2> QED
    BY <2>1, <2>3, <2>4 DEF HoldsOne
<1>3. /\ DOMAIN packer' = Packers /\ packer' = [q \in Packers |-> packer'[q]]
      /\ Holding'
  BY Zenon, <1>1, <1>2, PackerStep
<1>4. OutputShape' /\ Kept'
  BY Zenon, <1>1 DEF Inv, OutputShape, Kept
<1> QED
  BY <1>1, <1>3, <1>4, LoaderRests DEF Inv

\* Emptying one of the two files.
LEMMA TruncateInv ==
  ASSUME Inv, NEW p \in Packers, TruncateArchive(p) \/ TruncateManifest(p) PROVE Inv'
<1>1. PICK from \in {"built", "archived"}, file \in {"archive", "manifest"} : Truncate(p, from, file)
  BY DEF TruncateArchive, TruncateManifest
<1>2. /\ packer' = [packer EXCEPT ![p] = [packer[p] EXCEPT !.at = file]]
      /\ packer[p].at \in BuiltStates /\ file \in BuiltStates
      /\ out' = [out EXCEPT ![file] = Torn] /\ UNCHANGED <<loader, made>>
  BY <1>1 DEF Truncate, BuiltStates, Writing
<1>3. HoldsOne([packer[p] EXCEPT !.at = file], made')
  <2>1. HoldsOne(packer[p], made)
    BY DEF Inv, Holding
  <2>2. PICK dev, m : /\ m \in made /\ m.archive.whole /\ m.archive.pkg = m.pkg
                      /\ packer[p] = [at |-> packer[p].at, dev |-> dev, pkg |-> m.pkg, archive |-> m.archive]
    BY Zenon, <1>2, <2>1 DEF HoldsOne
  <2> DEFINE r == [packer[p] EXCEPT !.at = file]
  <2>3. r = [at |-> file, dev |-> dev, pkg |-> m.pkg, archive |-> m.archive] /\ r.at = file
    BY <2>2
  <2> HIDE DEF r
  <2>4. HoldsOne(r, made')
    BY Zenon, <1>2, <2>2, <2>3 DEF HoldsOne
  <2> QED
    BY <2>4 DEF r
<1>4. /\ DOMAIN packer' = Packers /\ packer' = [q \in Packers |-> packer'[q]]
      /\ Holding'
  BY Zenon, <1>2, <1>3, PackerStep
<1>5. OutputShape' /\ Kept'
  BY Zenon, <1>2 DEF Inv, OutputShape, Kept, Torn
<1> QED
  BY <1>2, <1>4, <1>5, LoaderRests DEF Inv

\* Filling the archive, with what the Pack has built or with a mixture.
LEMMA WriteArchiveInv == ASSUME Inv, NEW p \in Packers, WriteArchive(p) PROVE Inv'
<1> DEFINE r == [packer[p] EXCEPT !.at = "archived"]
<1>1. packer[p].at = "archive" /\ packer' = [packer EXCEPT ![p] = r] /\ UNCHANGED <<loader, made>>
  BY DEF WriteArchive, Fill
<1>2. PICK d \in {packer[p].archive, Torn} : out' = [out EXCEPT !["archive"] = d]
  BY Zenon DEF WriteArchive, Fill
<1>3. PICK dev, m : /\ m \in made /\ m.archive.whole /\ m.archive.pkg = m.pkg
                    /\ packer[p] = [at |-> packer[p].at, dev |-> dev, pkg |-> m.pkg, archive |-> m.archive]
  BY <1>1 DEF Inv, Holding, HoldsOne, BuiltStates, Writing
<1>4. r = [at |-> "archived", dev |-> dev, pkg |-> m.pkg, archive |-> m.archive] /\ r.at = "archived"
  BY <1>3
<1>5. packer[p].archive = m.archive
  BY <1>3
<1> HIDE DEF r
<1>6. HoldsOne(r, made')
  BY Zenon, <1>1, <1>3, <1>4 DEF HoldsOne
<1>7. /\ DOMAIN packer' = Packers /\ packer' = [q \in Packers |-> packer'[q]]
      /\ Holding'
  BY Zenon, <1>1, <1>6, PackerStep
<1>8. OutputShape' /\ out'.archive = d
  BY Zenon, <1>2 DEF Inv, OutputShape
<1>9. Kept'
  BY <1>1, <1>3, <1>5, <1>8 DEF Kept, Torn
<1> QED
  BY <1>1, <1>7, <1>8, <1>9, LoaderRests DEF Inv

\* Filling the manifest leaves the archive alone.
LEMMA WriteManifestInv == ASSUME Inv, NEW p \in Packers, WriteManifest(p) PROVE Inv'
<1>1. packer' = [packer EXCEPT ![p] = Idle] /\ UNCHANGED <<loader, made>>
  BY DEF WriteManifest, Fill
<1>2. \E d : out' = [out EXCEPT !["manifest"] = d]
  BY Zenon DEF WriteManifest, Fill
<1>3. HoldsOne(Idle, made')
  BY DEF HoldsOne, Idle, BuiltStates, Writing
<1>4. /\ DOMAIN packer' = Packers /\ packer' = [q \in Packers |-> packer'[q]]
      /\ Holding'
  BY Zenon, <1>1, <1>3, PackerStep
<1>5. OutputShape' /\ out'.archive = out.archive
  BY Zenon, <1>2 DEF Inv, OutputShape
<1>6. Kept'
  BY <1>1, <1>5 DEF Inv, Kept
<1> QED
  BY <1>1, <1>4, <1>5, <1>6, LoaderRests DEF Inv

\* The loader reads the manifest, and then the archive that is there by then.
LEMMA LoadInv == ASSUME Inv, ReadManifest \/ ReadArchive PROVE Inv'
<1>1. UNCHANGED <<out, packer, made>>
  BY DEF ReadManifest, ReadArchive, ghosts
<1>2. DOMAIN packer' = Packers /\ packer' = [q \in Packers |-> packer'[q]] /\ OutputShape' /\ Holding' /\ Kept'
  BY Zenon, <1>1 DEF Inv, OutputShape, Holding, Kept
<1>3. CASE ReadManifest
  <2>1. ~Loaded'
    BY <1>3 DEF ReadManifest, Loaded
  <2> QED
    BY <1>2, <2>1 DEF Inv, LoadedFromOnePack
<1>4. CASE ReadArchive
  <2> DEFINE e == loader.external
             a == out.archive
             pkg == EnrichToolMetadata(e.pkg, a.tag)
  <2>1. CASE ~Verified(e, a)
    <3>1. loader' = [at |-> "done", ok |-> FALSE]
      BY <1>4, <2>1 DEF ReadArchive
    <3>2. ~Loaded'
      BY <3>1 DEF Loaded
    <3> QED
      BY <1>2, <3>2 DEF Inv, LoadedFromOnePack
  <2>2. CASE Verified(e, a)
    <3>1. loader' = [at |-> "done", ok |-> TRUE, external |-> e, files |-> a, pkg |-> pkg]
      BY <1>4, <2>2 DEF ReadArchive
    <3>2. loader'.external = e /\ loader'.files = a /\ loader'.pkg = pkg
      BY <3>1
    <3>3. \E m \in made : m.archive = a /\ m.pkg = e.pkg
      BY <2>2 DEF Verified, Inv, Kept
    <3>4. LoadedFromOnePack'
      BY <1>1, <3>2, <3>3 DEF LoadedFromOnePack
    <3> QED
      BY <1>2, <3>4 DEF Inv
  <2> QED
    BY <2>1, <2>2
<1> QED
  BY <1>3, <1>4

\* Every step of an author, a Pack or a loader preserves the invariant.
LEMMA InvNext == Inv /\ [Next]_vars => Inv'
<1> SUFFICES ASSUME Inv, [Next]_vars PROVE Inv'
  OBVIOUS
<1>1. ASSUME UNCHANGED <<out, packer, loader, made>> PROVE Inv'
  BY Zenon, <1>1 DEF Inv, OutputShape, Holding, Kept, LoadedFromOnePack, Loaded
<1>2. ASSUME NEW s \in Sources, Edit(s) PROVE Inv'
  BY <1>1, <1>2 DEF Edit
<1>3. CASE UNCHANGED vars
  BY <1>1, <1>3 DEF vars, ghosts
<1> QED
  BY <1>2, <1>3, ReadInv, BuildInv, TruncateInv, WriteArchiveInv, WriteManifestInv, LoadInv DEF Next

\* However many Packs overwrite one another's files, what LoadArchive accepts, the
\* manifest and the archive, was built by one Pack.
THEOREM LoadsOnePack == Spec => []LoadedFromOnePack
<1>1. Inv => LoadedFromOnePack
  BY DEF Inv
<1> QED
  BY <1>1, InvInit, InvNext, PTL DEF Spec

-----------------------------------------------------------------------------
\* The effect of what is loaded

IsPackage(pkg) == \E e, f, r : pkg = [entry |-> e, effect |-> f, resourceParams |-> r]

\* A package was validated before it was built, with the tag of its source if nobody
\* has edited since its manifest was read.
MadeValid ==
  \A m \in made :
    /\ IsPackage(m.pkg) /\ ValidateCompiled(m.pkg)
    /\ m.steady /\ m.archive.tag # NoEffect => m.archive.tag \in Effects

\* The package r that was read under tag, in a directory that is still the same if kept.
ReadWell(r, tag, kept) ==
  /\ IsPackage(r.pkg) /\ ValidateCompiled(r.pkg)
  /\ kept /\ tag # NoEffect => r.pkg.effect = tag

ReadsWell ==
  \A p \in Packers : packer[p].at = "loaded" => ReadWell(packer[p], TagOf(packer[p].pkg.entry), p \in steady)

LoaderWell ==
  Loaded => /\ ValidateCompiled(loader.external.pkg)
            /\ loader.pkg = EnrichToolMetadata(loader.external.pkg, loader.files.tag)

EffectInv == MadeValid /\ ReadsWell /\ LoaderWell

\* The tag takes the place of the effect and leaves the rest of the package.
LEMMA EnrichedEffect ==
  ASSUME NEW pkg, IsPackage(pkg), NEW tag
  PROVE  /\ IsPackage(EnrichToolMetadata(pkg, tag))
         /\ EnrichToolMetadata(pkg, tag).entry = pkg.entry
         /\ EnrichToolMetadata(pkg, tag).effect = IF tag = NoEffect THEN pkg.effect ELSE tag
<1>1. PICK e, f, r : pkg = [entry |-> e, effect |-> f, resourceParams |-> r]
  BY Zenon DEF IsPackage
<1>2. CASE tag = NoEffect
  BY <1>2 DEF EnrichToolMetadata
<1>3. CASE tag # NoEffect
  <2>1. EnrichToolMetadata(pkg, tag) = [entry |-> e, effect |-> tag, resourceParams |-> r]
    BY <1>1, <1>3 DEF EnrichToolMetadata
  <2>2. EnrichToolMetadata(pkg, tag).entry = e /\ EnrichToolMetadata(pkg, tag).effect = tag
    BY <2>1
  <2>3. pkg.entry = e
    BY <1>1
  <2>4. IsPackage(EnrichToolMetadata(pkg, tag))
    BY Zenon, <2>1 DEF IsPackage
  <2> QED
    BY Zenon, <1>3, <2>2, <2>3, <2>4
<1> QED
  BY <1>2, <1>3

\* A compiled manifest is a package.
LEMMA Compiled == ASSUME NEW s PROVE IsPackage(Compile(s)) /\ Compile(s).entry = s.entry
  BY Zenon DEF Compile, IsPackage

\* Nothing is packed or loaded at first.
LEMMA EffectInit == Init => EffectInv
  BY DEF Init, EffectInv, MadeValid, ReadsWell, LoaderWell, Loaded, Idle

\* One packer moves on to r, in the same directory, and others that are steady stay so.
LEMMA EffectStep ==
  ASSUME Inv, EffectInv, NEW p \in Packers, NEW r, packer' = [packer EXCEPT ![p] = r],
         UNCHANGED <<src, loader>>, \A q \in Packers \ {p} : q \in steady' => q \in steady,
         MadeValid', r.at = "loaded" => ReadWell(r, TagOf(r.pkg.entry), p \in steady')
  PROVE  EffectInv'
<1>1. packer'[p] = r /\ \A q \in Packers \ {p} : packer'[q] = packer[q]
  BY DEF Inv
<1>2. \A e : TagOf(e)' = TagOf(e)
  BY DEF TagOf
<1>3. ASSUME NEW q \in Packers, packer'[q].at = "loaded"
      PROVE  ReadWell(packer'[q], TagOf(packer'[q].pkg.entry), q \in steady')
  <2>1. CASE q = p
    BY <1>1, <1>3, <2>1
  <2>2. CASE q # p
    <3>1. packer'[q] = packer[q]
      BY <1>1, <2>2
    <3>2. ReadWell(packer[q], TagOf(packer[q].pkg.entry), q \in steady)
      BY <1>3, <3>1 DEF EffectInv, ReadsWell
    <3> QED
      BY <2>2, <3>1, <3>2 DEF ReadWell
  <2> QED
    BY <2>1, <2>2
<1>4. ReadsWell'
  BY <1>2, <1>3 DEF ReadsWell
<1>5. LoaderWell'
  BY DEF EffectInv, LoaderWell, Loaded
<1> QED
  BY <1>4, <1>5 DEF EffectInv

\* Steps of a Pack that leave what it holds alone, drop it or read the manifest.
LEMMA EffectOther ==
  ASSUME Inv, EffectInv, NEW p \in Packers, NEW r, packer' = [packer EXCEPT ![p] = r], r.at # "loaded",
         UNCHANGED <<src, loader, made>>, \A q \in Packers \ {p} : q \in steady' => q \in steady
  PROVE  EffectInv'
<1>1. MadeValid'
  BY DEF EffectInv, MadeValid
<1> QED
  BY Zenon, <1>1, EffectStep

\* The record of a packer that has built keeps its shape when it moves on.
LEMMA Moved ==
  ASSUME Inv, NEW p \in Packers, packer[p].at \in BuiltStates, NEW at
  PROVE  [packer[p] EXCEPT !.at = at].at = at /\ [packer[p] EXCEPT !.at = at].archive = packer[p].archive
<1>1. HoldsOne(packer[p], made)
  BY DEF Inv, Holding
<1>2. PICK dev, m : packer[p] = [at |-> packer[p].at, dev |-> dev, pkg |-> m.pkg, archive |-> m.archive]
  BY Zenon, <1>1 DEF HoldsOne
<1> QED
  BY <1>2

\* An edit takes from every Pack under way the promise that its tag is the source's.
LEMMA EditEffect == ASSUME EffectInv, NEW s \in Sources, Edit(s) PROVE EffectInv'
<1>1. UNCHANGED <<packer, loader, made>> /\ steady' = {}
  BY DEF Edit
<1>2. MadeValid' /\ LoaderWell'
  BY <1>1 DEF EffectInv, MadeValid, LoaderWell, Loaded
<1>3. ReadsWell'
  BY <1>1 DEF EffectInv, ReadsWell, ReadWell
<1> QED
  BY <1>2, <1>3 DEF EffectInv

\* The manifest is read, and the Pack is steady from now on.
LEMMA ReadDevEffect == ASSUME Inv, EffectInv, NEW p \in Packers, ReadDev(p) PROVE EffectInv'
<1> DEFINE r == IF ParseDev(src) THEN [at |-> "parsed", dev |-> src] ELSE [at |-> "refused", dev |-> src]
<1>1. packer' = [packer EXCEPT ![p] = r] /\ UNCHANGED <<src, loader, made>> /\ steady' = steady \cup {p}
  BY DEF ReadDev
<1>2. r.at # "loaded"
  OBVIOUS
<1> HIDE DEF r
<1> QED
  BY Zenon, <1>1, <1>2, EffectOther

\* The sources are read and the package is validated.
LEMMA LoadDirEffect == ASSUME Inv, EffectInv, NEW p \in Packers, LoadDir(p) PROVE EffectInv'
<1> DEFINE dev == packer[p].dev
           tag == TagOf(dev.entry)
           pkg == EnrichToolMetadata(Compile(dev), tag)
           r == IF ValidateCompiled(pkg)
                THEN [at |-> "loaded", dev |-> dev, pkg |-> pkg] ELSE [at |-> "refused", dev |-> dev]
<1>1. packer' = [packer EXCEPT ![p] = r] /\ UNCHANGED <<src, loader, made, steady>>
  BY DEF LoadDir, ghosts
<1>2. IsPackage(pkg) /\ pkg.entry = dev.entry /\ pkg.effect = IF tag = NoEffect THEN Compile(dev).effect ELSE tag
  BY Compiled, EnrichedEffect
<1>3. MadeValid'
  BY <1>1 DEF EffectInv, MadeValid
<1> HIDE DEF pkg
<1>4. ASSUME r.at = "loaded" PROVE ReadWell(r, TagOf(r.pkg.entry), p \in steady')
  <2>1. ValidateCompiled(pkg) /\ r.pkg = pkg
    BY <1>4
  <2> HIDE DEF r
  <2> QED
    BY <1>2, <2>1 DEF ReadWell
<1> HIDE DEF r
<1> QED
  BY Zenon, <1>1, <1>3, <1>4, EffectStep

\* What is built has the tag that its package was validated with, if nobody has edited.
LEMMA BuildEffect == ASSUME Inv, EffectInv, NEW p \in Packers, Build(p) PROVE EffectInv'
<1> DEFINE pkg == packer[p].pkg
           tag == TagOf(pkg.entry)
           a == [whole |-> TRUE, pkg |-> pkg, tag |-> tag]
           m == [pkg |-> pkg, archive |-> a, steady |-> p \in steady]
           r == [at |-> "built", dev |-> packer[p].dev, pkg |-> pkg, archive |-> a]
<1>1. /\ packer[p].at = "loaded" /\ packer' = [packer EXCEPT ![p] = r] /\ made' = made \cup {m}
      /\ UNCHANGED <<src, loader, steady>>
  BY DEF Build
<1>2. ReadWell(packer[p], tag, p \in steady)
  BY <1>1 DEF EffectInv, ReadsWell
<1>3. m.pkg = pkg /\ m.archive = a /\ a.tag = tag /\ (m.steady <=> p \in steady) /\ r.at = "built"
  BY Zenon
<1> HIDE DEF m, a, r, tag, pkg
<1>4. IsPackage(m.pkg) /\ ValidateCompiled(m.pkg) /\ (m.steady /\ m.archive.tag # NoEffect => m.archive.tag \in Effects)
  BY <1>2, <1>3 DEF ReadWell, ValidateCompiled, pkg
<1>5. MadeValid'
  BY <1>1, <1>4 DEF EffectInv, MadeValid
<1> QED
  BY Zenon, <1>1, <1>3, <1>5, EffectStep

\* Writing the output, and the end of a Pack.
LEMMA WriteEffect ==
  ASSUME Inv, EffectInv, NEW p \in Packers,
         TruncateArchive(p) \/ WriteArchive(p) \/ TruncateManifest(p) \/ WriteManifest(p) \/ Stop(p)
  PROVE  EffectInv'
<1>1. UNCHANGED <<src, loader, made, steady>>
  BY DEF TruncateArchive, WriteArchive, TruncateManifest, WriteManifest, Stop, Truncate, Fill, ghosts
<1>2. ASSUME NEW at \in {"archive", "archived", "manifest"}, packer[p].at \in BuiltStates,
             packer' = [packer EXCEPT ![p] = [packer[p] EXCEPT !.at = at]]
      PROVE  EffectInv'
  BY Zenon, <1>1, <1>2, Moved, EffectOther
<1>3. CASE TruncateArchive(p)
  BY <1>2, <1>3 DEF TruncateArchive, Truncate, BuiltStates
<1>4. CASE WriteArchive(p)
  BY <1>2, <1>4 DEF WriteArchive, Fill, BuiltStates, Writing
<1>5. CASE TruncateManifest(p)
  BY <1>2, <1>5 DEF TruncateManifest, Truncate, BuiltStates, Writing
<1>6. ASSUME packer' = [packer EXCEPT ![p] = Idle] PROVE EffectInv'
  <2>1. Idle.at # "loaded"
    BY DEF Idle
  <2> QED
    BY Zenon, <1>1, <1>6, <2>1, EffectOther
<1> QED
  BY <1>3, <1>4, <1>5, <1>6 DEF WriteManifest, Fill, Stop

\* LoadArchive validates the manifest and reads the tag from the archive.
LEMMA LoadEffect == ASSUME EffectInv, ReadManifest \/ ReadArchive PROVE EffectInv'
<1>1. UNCHANGED <<src, packer, made, steady>>
  BY DEF ReadManifest, ReadArchive, ghosts
<1>2. MadeValid' /\ ReadsWell'
  BY <1>1 DEF EffectInv, MadeValid, ReadsWell, TagOf
<1>3. CASE ReadManifest
  <2>1. ~Loaded'
    BY <1>3 DEF ReadManifest, Loaded
  <2> QED
    BY <1>2, <2>1 DEF EffectInv, LoaderWell
<1>4. CASE ReadArchive
  <2> DEFINE e == loader.external
             a == out.archive
             pkg == EnrichToolMetadata(e.pkg, a.tag)
  <2>1. CASE ~Verified(e, a)
    <3>1. loader' = [at |-> "done", ok |-> FALSE]
      BY <1>4, <2>1 DEF ReadArchive
    <3>2. ~Loaded'
      BY <3>1 DEF Loaded
    <3> QED
      BY <1>2, <3>2 DEF EffectInv, LoaderWell
  <2>2. CASE Verified(e, a)
    <3>1. loader' = [at |-> "done", ok |-> TRUE, external |-> e, files |-> a, pkg |-> pkg]
      BY <1>4, <2>2 DEF ReadArchive
    <3>2. loader'.external = e /\ loader'.files = a /\ loader'.pkg = pkg
      BY <3>1
    <3>3. LoaderWell'
      BY <2>2, <3>2 DEF LoaderWell, Verified
    <3> QED
      BY <1>2, <3>3 DEF EffectInv
  <2> QED
    BY <2>1, <2>2
<1> QED
  BY <1>3, <1>4

\* Every step of an author, a Pack or a loader preserves EffectInv.
LEMMA EffectNext == Inv /\ EffectInv /\ [Next]_vars => EffectInv'
<1> SUFFICES ASSUME Inv, EffectInv, [Next]_vars PROVE EffectInv'
  OBVIOUS
<1>1. CASE UNCHANGED vars
  BY <1>1 DEF vars, ghosts, EffectInv, MadeValid, ReadsWell, LoaderWell, Loaded, TagOf
<1> QED
  BY <1>1, EditEffect, ReadDevEffect, LoadDirEffect, BuildEffect, WriteEffect, LoadEffect DEF Next

\* A package that Pack took from an unchanging directory has one of the three effects
\* when LoadArchive has read its sources again, for any sources and tags.
THEOREM EffectsKnown == Spec => []LoadedEffectKnown
<1>1. ASSUME Inv, EffectInv PROVE LoadedEffectKnown
  <2> SUFFICES ASSUME Loaded, \A m \in made : m.archive = loader.files => m.steady
               PROVE  loader.pkg.effect \in Effects
    BY DEF LoadedEffectKnown
  <2>1. PICK m \in made : m.pkg = loader.external.pkg /\ m.archive = loader.files
    BY <1>1 DEF Inv, LoadedFromOnePack
  <2>2. IsPackage(m.pkg) /\ ValidateCompiled(m.pkg) /\ (loader.files.tag # NoEffect => loader.files.tag \in Effects)
    BY <1>1, <2>1 DEF EffectInv, MadeValid
  <2>3. loader.pkg = EnrichToolMetadata(m.pkg, loader.files.tag)
    BY <1>1, <2>1 DEF EffectInv, LoaderWell
  <2>4. loader.pkg.effect = IF loader.files.tag = NoEffect THEN m.pkg.effect ELSE loader.files.tag
    BY <2>2, <2>3, EnrichedEffect
  <2> QED
    BY <2>2, <2>4 DEF ValidateCompiled
<1> QED
  BY <1>1, InvInit, InvNext, EffectInit, EffectNext, PTL DEF Spec


-----------------------------------------------------------------------------
\* The output of a Pack that wrote alone

\* Nobody else writes, and the archive that was written is still there.
AloneWell ==
  \A p \in alone :
    /\ p \in Packers /\ \A q \in Packers \ {p} : packer[q].at \notin Writing
    /\ packer[p].at \in {"archived", "manifest"} => out.archive = packer[p].archive

\* Once it is finished, both files are there and verify.
QuietWell ==
  quiet => /\ \A q \in Packers : packer[q].at \notin Writing
           /\ out.manifest.whole /\ Verified(out.manifest, out.archive)

\* A loader that has not been disturbed has read that manifest.
UndisturbedWell ==
  undisturbed => /\ quiet
                 /\ loader.at = "manifest" => loader.external = out.manifest
                 /\ loader.at = "done" => loader.ok

QuietInv == AloneWell /\ QuietWell /\ UndisturbedWell

\* Nobody is alone and nothing is quiet at first.
LEMMA QuietInit == Init => QuietInv
  BY DEF Init, QuietInv, AloneWell, QuietWell, UndisturbedWell

\* Steps of a Pack outside its writes, and its end.
LEMMA OutsideQuiet ==
  ASSUME Inv, QuietInv, NEW p \in Packers, NEW r, packer' = [packer EXCEPT ![p] = r], r.at \notin Writing,
         UNCHANGED <<out, loader, alone, quiet, undisturbed>>
  PROVE  QuietInv'
<1>1. packer'[p] = r /\ \A q \in Packers \ {p} : packer'[q] = packer[q]
  BY DEF Inv
<1>2. \A q \in Packers : packer[q].at \notin Writing => packer'[q].at \notin Writing
  BY <1>1
<1>3. AloneWell'
  BY <1>1, <1>2 DEF QuietInv, AloneWell, Writing
<1>4. QuietWell'
  BY <1>2 DEF QuietInv, QuietWell, Verified
<1>5. UndisturbedWell'
  BY DEF QuietInv, UndisturbedWell
<1> QED
  BY <1>3, <1>4, <1>5 DEF QuietInv

\* Reading, compiling and building leave the output alone, and so does stopping.
LEMMA ReadQuiet ==
  ASSUME Inv, QuietInv, NEW p \in Packers, ReadDev(p) \/ LoadDir(p) \/ Build(p) \/ Stop(p)
  PROVE  QuietInv'
<1>1. UNCHANGED <<out, loader, alone, quiet, undisturbed>>
  BY DEF ReadDev, LoadDir, Build, Stop, ghosts
<1>2. \E r : r.at \notin Writing /\ packer' = [packer EXCEPT ![p] = r]
  <2>1. CASE ReadDev(p)
    <3> DEFINE r == IF ParseDev(src) THEN [at |-> "parsed", dev |-> src] ELSE [at |-> "refused", dev |-> src]
    <3>1. packer' = [packer EXCEPT ![p] = r]
      BY <2>1 DEF ReadDev
    <3>2. r.at \notin Writing
      BY DEF Writing
    <3> HIDE DEF r
    <3> QED
      BY Zenon, <3>1, <3>2
  <2>2. CASE LoadDir(p)
    <3> DEFINE dev == packer[p].dev
               pkg == EnrichToolMetadata(Compile(dev), TagOf(dev.entry))
               r == IF ValidateCompiled(pkg)
                    THEN [at |-> "loaded", dev |-> dev, pkg |-> pkg] ELSE [at |-> "refused", dev |-> dev]
    <3>1. packer' = [packer EXCEPT ![p] = r]
      BY <2>2 DEF LoadDir
    <3>2. r.at \notin Writing
      BY DEF Writing
    <3> HIDE DEF r
    <3> QED
      BY Zenon, <3>1, <3>2
  <2>3. CASE Build(p)
    <3> DEFINE archive == [whole |-> TRUE, pkg |-> packer[p].pkg, tag |-> TagOf(packer[p].pkg.entry)]
               r == [at |-> "built", dev |-> packer[p].dev, pkg |-> packer[p].pkg, archive |-> archive]
    <3>1. packer' = [packer EXCEPT ![p] = r]
      BY <2>3 DEF Build
    <3>2. r.at \notin Writing
      BY DEF Writing
    <3> HIDE DEF r
    <3> QED
      BY Zenon, <3>1, <3>2
  <2>4. CASE Stop(p)
    <3>1. Idle.at \notin Writing
      BY DEF Idle, Writing
    <3> QED
      BY Zenon, <2>4, <3>1 DEF Stop
  <2> QED
    BY <2>1, <2>2, <2>3, <2>4
<1> QED
  BY Zenon, <1>1, <1>2, OutsideQuiet

\* A Pack begins to write: it alone can be alone from now on.
LEMMA TruncateArchiveQuiet == ASSUME Inv, QuietInv, NEW p \in Packers, TruncateArchive(p) PROVE QuietInv'
<1>1. /\ packer[p].at = "built" /\ packer' = [packer EXCEPT ![p] = [packer[p] EXCEPT !.at = "archive"]]
      /\ quiet' = FALSE /\ undisturbed' = FALSE /\ alone' = IF Others(p) = {} THEN {p} ELSE {}
  BY DEF TruncateArchive, Truncate
<1>2. packer'[p].at = "archive" /\ \A q \in Packers \ {p} : packer'[q] = packer[q]
  BY Zenon, <1>1, Moved DEF Inv, BuiltStates
<1>3. AloneWell'
  BY <1>1, <1>2 DEF AloneWell, Others
<1> QED
  BY <1>1, <1>3 DEF QuietInv, QuietWell, UndisturbedWell

\* Whoever writes is the only one that can be alone.
LEMMA WriterAlone ==
  ASSUME QuietInv, NEW p \in Packers, packer[p].at \in Writing
  PROVE  alone \subseteq {p} /\ ~quiet
  BY DEF QuietInv, AloneWell, QuietWell

\* The archive is written whole by a Pack that is alone.
LEMMA WriteArchiveQuiet == ASSUME Inv, QuietInv, NEW p \in Packers, WriteArchive(p) PROVE QuietInv'
<1>1. /\ packer[p].at = "archive" /\ packer' = [packer EXCEPT ![p] = [packer[p] EXCEPT !.at = "archived"]]
      /\ p \in alone => out' = [out EXCEPT !["archive"] = packer[p].archive]
      /\ undisturbed' = FALSE /\ UNCHANGED <<alone, quiet>>
  BY Zenon DEF WriteArchive, Fill
<1>2. alone \subseteq {p} /\ ~quiet
  BY <1>1, WriterAlone DEF Writing
<1>3. packer'[p].archive = packer[p].archive /\ \A q \in Packers \ {p} : packer'[q] = packer[q]
  BY Zenon, <1>1, Moved DEF Inv, BuiltStates, Writing
<1>4. p \in alone => out'.archive = packer[p].archive
  BY <1>1 DEF Inv, OutputShape
<1>5. AloneWell'
  BY <1>1, <1>2, <1>3, <1>4 DEF QuietInv, AloneWell
<1> QED
  BY <1>1, <1>2, <1>5 DEF QuietInv, QuietWell, UndisturbedWell

\* The manifest is emptied and the archive stays.
LEMMA TruncateManifestQuiet == ASSUME Inv, QuietInv, NEW p \in Packers, TruncateManifest(p) PROVE QuietInv'
<1>1. /\ packer[p].at = "archived" /\ packer' = [packer EXCEPT ![p] = [packer[p] EXCEPT !.at = "manifest"]]
      /\ out' = [out EXCEPT !["manifest"] = Torn]
      /\ quiet' = FALSE /\ undisturbed' = FALSE /\ UNCHANGED alone
  BY DEF TruncateManifest, Truncate
<1>2. alone \subseteq {p}
  BY <1>1, WriterAlone DEF Writing
<1>3. packer'[p].archive = packer[p].archive /\ \A q \in Packers \ {p} : packer'[q] = packer[q]
  BY Zenon, <1>1, Moved DEF Inv, BuiltStates, Writing
<1>4. out'.archive = out.archive
  BY <1>1 DEF Inv, OutputShape
<1>5. AloneWell'
  BY <1>1, <1>2, <1>3, <1>4 DEF QuietInv, AloneWell
<1> QED
  BY <1>1, <1>5 DEF QuietInv, QuietWell, UndisturbedWell

\* The manifest of a Pack that was alone has the hash of the archive beside it.
LEMMA WriteManifestQuiet == ASSUME Inv, EffectInv, QuietInv, NEW p \in Packers, WriteManifest(p) PROVE QuietInv'
<1> DEFINE d == [whole |-> TRUE, pkg |-> packer[p].pkg, sha256 |-> packer[p].archive]
<1>1. /\ packer[p].at = "manifest" /\ packer' = [packer EXCEPT ![p] = Idle]
      /\ p \in alone => out' = [out EXCEPT !["manifest"] = d]
      /\ (quiet' <=> p \in alone) /\ undisturbed' = FALSE /\ UNCHANGED alone
  BY Zenon DEF WriteManifest, Fill
<1>2. alone \subseteq {p}
  BY <1>1, WriterAlone DEF Writing
<1>3. packer'[p] = Idle /\ \A q \in Packers \ {p} : packer'[q] = packer[q]
  BY <1>1 DEF Inv
<1>4. AloneWell'
  BY <1>1, <1>2, <1>3 DEF QuietInv, AloneWell, Idle
<1>5. ASSUME p \in alone PROVE Verified(out'.manifest, out'.archive) /\ out'.manifest.whole
  <2>1. PICK dev, m : /\ m \in made /\ m.archive.whole /\ m.archive.pkg = m.pkg
                      /\ packer[p] = [at |-> packer[p].at, dev |-> dev, pkg |-> m.pkg, archive |-> m.archive]
    BY <1>1 DEF Inv, Holding, HoldsOne, BuiltStates, Writing
  <2>2. packer[p].pkg = m.pkg /\ packer[p].archive = m.archive
    BY <2>1
  <2>3. out'.manifest = d /\ out'.archive = m.archive
    BY Zenon, <1>1, <1>5, <2>2 DEF Inv, OutputShape, QuietInv, AloneWell
  <2>4. d.whole /\ d.pkg = m.pkg /\ d.sha256 = m.archive
    BY <2>2
  <2>5. ValidateCompiled(m.pkg)
    BY <2>1 DEF EffectInv, MadeValid
  <2> QED
    BY <2>1, <2>3, <2>4, <2>5 DEF Verified
<1>6. ASSUME p \in alone PROVE \A q \in Packers : packer'[q].at \notin Writing
  BY <1>3, <1>6 DEF QuietInv, AloneWell, Idle, Writing
<1>7. QuietWell'
  BY <1>1, <1>5, <1>6 DEF QuietWell, Verified
<1> QED
  BY <1>1, <1>4, <1>7 DEF QuietInv, UndisturbedWell

\* A loader that begins on a quiet output is not disturbed and finds what verifies.
LEMMA LoadQuiet == ASSUME QuietInv, ReadManifest \/ ReadArchive PROVE QuietInv'
<1>1. UNCHANGED <<packer, out, alone, quiet>>
  BY DEF ReadManifest, ReadArchive, ghosts
<1>2. AloneWell' /\ QuietWell'
  BY <1>1 DEF QuietInv, AloneWell, QuietWell, Verified
<1>3. CASE ReadManifest
  <2>1. CASE quiet
    <3>1. loader' = [at |-> "manifest", external |-> out.manifest]
      BY <1>3, <2>1 DEF ReadManifest, QuietInv, QuietWell
    <3> QED
      BY <1>1, <1>2, <2>1, <3>1 DEF QuietInv, UndisturbedWell
  <2>2. CASE ~quiet
    BY <1>2, <1>3, <2>2 DEF ReadManifest, QuietInv, UndisturbedWell
  <2> QED
    BY <2>1, <2>2
<1>4. CASE ReadArchive
  <2>1. undisturbed' = undisturbed /\ loader.at = "manifest"
    BY <1>4 DEF ReadArchive, ghosts
  <2>2. CASE undisturbed
    <3>1. quiet /\ loader.external = out.manifest /\ Verified(loader.external, out.archive)
      BY <2>1, <2>2 DEF QuietInv, UndisturbedWell, QuietWell
    <3>2. loader'.at = "done" /\ loader'.ok
      BY <1>4, <3>1 DEF ReadArchive
    <3> QED
      BY <1>1, <1>2, <3>1, <3>2 DEF QuietInv, UndisturbedWell
  <2>3. CASE ~undisturbed
    BY <1>2, <2>1, <2>3 DEF QuietInv, UndisturbedWell
  <2> QED
    BY <2>2, <2>3
<1> QED
  BY <1>3, <1>4

\* Every step of an author, a Pack or a loader preserves QuietInv.
LEMMA QuietNext == Inv /\ EffectInv /\ QuietInv /\ [Next]_vars => QuietInv'
<1> SUFFICES ASSUME Inv, EffectInv, QuietInv, [Next]_vars PROVE QuietInv'
  OBVIOUS
<1>1. ASSUME UNCHANGED <<out, packer, loader, alone, quiet, undisturbed>> PROVE QuietInv'
  BY <1>1 DEF QuietInv, AloneWell, QuietWell, UndisturbedWell, Verified
<1>2. ASSUME NEW s \in Sources, Edit(s) PROVE QuietInv'
  BY <1>1, <1>2 DEF Edit
<1>3. CASE UNCHANGED vars
  BY <1>1, <1>3 DEF vars, ghosts
<1> QED
  BY <1>2, <1>3, ReadQuiet, TruncateArchiveQuiet, WriteArchiveQuiet, TruncateManifestQuiet, WriteManifestQuiet,
     LoadQuiet DEF Next

\* What a Pack has written while no other wrote can be loaded, whatever the Packs
\* before it have left in the directory and wherever they have stopped.
THEOREM QuietLoads == Spec => []QuietOutputLoads
<1>1. QuietInv => QuietOutputLoads
  BY DEF QuietInv, UndisturbedWell, QuietOutputLoads
<1> QED
  BY <1>1, InvInit, InvNext, EffectInit, EffectNext, QuietInit, QuietNext, PTL DEF Spec

=============================================================================
