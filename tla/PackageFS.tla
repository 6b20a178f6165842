----------------------------- MODULE PackageFS -----------------------------
(***************************************************************************)
(* The filesystems through which a package's files are read: sourceFS, a   *)
(* filter over the package's directory (packaging/internal/source); the    *)
(* archive that Pack makes of it and archiveMemFS, made of the archive     *)
(* again (packaging/internal/archive); and fsoverlay, which puts the       *)
(* runner's file on top of either (runtime/quickts).                       *)
(*                                                                         *)
(* A path is a sequence of names, the root the empty one.  A filesystem is *)
(* what Open (and Stat) and ReadDir answer for every path.                 *)
(***************************************************************************)
EXTENDS Naturals, Sequences, SequencesExt

CONSTANTS
  Paths,      \* paths below the root
  Manifest,   \* the path of toolbox.pkg.json
  Runner,     \* the path of the runner's file
  Trees       \* directories: which of Paths are files, and which directories

VARIABLES
  base,       \* the package's directory
  declared,   \* the entries and executables that the manifest names
  globs,      \* the paths that its globs match
  tar,        \* the entries that addFSToTar wrote
  mem,        \* archiveMemFS
  phase

vars == <<base, declared, globs, tar, mem, phase>>

Root == <<>>
All == Paths \cup {Root}
Parents(p) == {SubSeq(p, 1, i) : i \in 0 .. Len(p) - 1}
Children(d) == {p \in Paths : Len(p) = Len(d) + 1 /\ SubSeq(p, 1, Len(d)) = d}

NotExist == [kind |-> "none", data |-> <<>>]
Dir == [kind |-> "dir", data |-> <<>>]
File(layer, p) == [kind |-> "file", data |-> <<layer, p>>]
NoDir == [ok |-> FALSE, entries |-> {}]
Entries(S) == [ok |-> TRUE, entries |-> S]

\* os.DirFS.
BaseOpen(p) ==
  IF p = Root \/ p \in base.dirs THEN Dir
  ELSE IF p \in base.files THEN File("package", p) ELSE NotExist
BaseReadDir(d) ==
  IF BaseOpen(d) = Dir THEN Entries({p \in Children(d) : BaseOpen(p) # NotExist}) ELSE NoDir

\* sourceFS: what the manifest names, there or not, the files that its globs find, and
\* the directories above them.
allowedTypeScriptFiles == declared \cup (globs \cap base.files)
\* Mutant of allowedDirectories: only the directories that hold such a file.
allowedDirectoriesNearest ==
  {Root} \cup {SubSeq(p, 1, Len(p) - 1) : p \in allowedTypeScriptFiles}

allowedDirectories == {Root} \cup UNION {Parents(p) : p \in allowedTypeScriptFiles}

SourceOpen(p) == IF p \in allowedTypeScriptFiles \cup allowedDirectories THEN BaseOpen(p) ELSE NotExist

SourceReadDir(d) ==
  IF d \in allowedDirectories /\ BaseReadDir(d).ok
  THEN Entries({p \in BaseReadDir(d).entries : p \in allowedTypeScriptFiles \cup allowedDirectories})
  ELSE NoDir

SourceFS == [open |-> [p \in All |-> SourceOpen(p)], readDir |-> [d \in All |-> SourceReadDir(d)]]

\* fs.WalkDir: a path is visited when every directory above it lists the next step.
Visited(p) ==
  \A i \in 1 .. Len(p) : SubSeq(p, 1, i) \in SourceReadDir(SubSeq(p, 1, i - 1)).entries

\* archiveMemFS.
ArchiveOpen(p) ==
  IF p \in mem.dirs THEN Dir
  ELSE IF p \in DOMAIN mem.files THEN mem.files[p] ELSE NotExist

dirEntries(d) ==
  {p \in Children(d) : p \in DOMAIN mem.files} \cup {p \in Children(d) : p \in mem.dirs}

ArchiveReadDir(d) == IF d \in mem.dirs THEN Entries(dirEntries(d)) ELSE NoDir

ArchiveFS == [open |-> [p \in All |-> ArchiveOpen(p)], readDir |-> [d \in All |-> ArchiveReadDir(d)]]

\* The runner's file, alone in a filesystem.
RunnerFS ==
  [open |-> [p \in All |-> IF p = Runner THEN File("runner", p) ELSE IF p = Root THEN Dir ELSE NotExist],
   readDir |-> [d \in All |-> IF d = Root THEN Entries({Runner}) ELSE NoDir]]

\* Mutant of Overlay: a name is listed only by the highest layer that has the directory.
OverlayShadowing(upper, lower) ==
  [open |-> [p \in All |-> IF upper.open[p] # NotExist THEN upper.open[p] ELSE lower.open[p]],
   readDir |-> [d \in All |-> IF upper.readDir[d].ok THEN upper.readDir[d] ELSE lower.readDir[d]]]

\* fsoverlay.FS with two layers: the first that has a name wins, lists are united.
Overlay(upper, lower) ==
  [open |-> [p \in All |-> IF upper.open[p] # NotExist THEN upper.open[p] ELSE lower.open[p]],
   readDir |-> [d \in All |->
     IF upper.readDir[d].ok \/ lower.readDir[d].ok
     THEN Entries(upper.readDir[d].entries \cup lower.readDir[d].entries) ELSE NoDir]]

\* withRunner.
WithRunner(fsys) == Overlay(RunnerFS, fsys)

-----------------------------------------------------------------------------

Empty == [files |-> <<>>, dirs |-> {Root}]

Init ==
  /\ base \in Trees
  /\ declared \in SUBSET (Paths \ {Runner, Manifest})
  /\ globs \in {{}, {Manifest}, Paths}
  /\ tar = {}
  /\ mem = Empty
  /\ phase = "source"

\* addFSToTar, then the manifest.  The walk fails at a directory that is declared as
\* a file: ReadDir refuses it.
Pack ==
  /\ phase = "source"
  /\ LET visited == {p \in Paths : Visited(p)}
     IN IF \A p \in visited : BaseOpen(p) = Dir => p \in allowedDirectories
        THEN /\ tar' = {<<p, BaseOpen(p)>> : p \in visited}
             /\ phase' = "packed"
        ELSE UNCHANGED tar /\ phase' = "failed"
  /\ UNCHANGED <<base, declared, globs, mem>>

\* extractArchive: the manifest comes last, so it replaces a file of its name.
extractArchive ==
  LET walked == {e[1] : e \in {t \in tar : t[2] # Dir}}
      dirs == {e[1] : e \in {t \in tar : t[2] = Dir}}
  IN [files |-> [p \in walked \cup {Manifest} |->
        IF p = Manifest THEN File("manifest", p) ELSE (CHOOSE t \in tar : t[1] = p)[2]],
      dirs |-> {Root} \cup dirs \cup UNION {Parents(p) : p \in walked}]

LoadArchive ==
  /\ phase = "packed"
  /\ mem' = extractArchive
  /\ phase' = "loaded"
  /\ UNCHANGED <<base, declared, globs, tar>>

Next == Pack \/ LoadArchive

-----------------------------------------------------------------------------
\* Properties

\* A package reads the same from its archive as from its directory: every path opens
\* as the same file or directory or not at all, and every directory lists the same
\* names, whatever is declared but missing, or there but not declared; the archive
\* has besides the manifest that Pack has made, also when a glob of the package matches
\* one that an earlier Pack left (sourceFS, addFSToTar, extractArchive, archiveMemFS).
ArchiveIsSource ==
  phase = "loaded" =>
    /\ \A p \in All \ {Manifest} : ArchiveFS.open[p] = SourceFS.open[p]
    /\ \A d \in All \ {Root} : ArchiveFS.readDir[d] = SourceFS.readDir[d]
    /\ ArchiveFS.readDir[Root].entries = SourceFS.readDir[Root].entries \cup {Manifest}
    /\ ArchiveFS.open[Manifest] = File("manifest", Manifest)

\* Through the runner's overlay every file of the package is there, unchanged, and
\* what a directory lists is exactly what can be opened in it (withRunner).
OverlayConsistent ==
  \A fsys \in {SourceFS} \cup (IF phase = "loaded" THEN {ArchiveFS} ELSE {}) :
    LET o == WithRunner(fsys)
    IN /\ o.open[Runner] = File("runner", Runner)
       /\ \A p \in All \ {Runner} : o.open[p] = fsys.open[p]
       /\ \A d \in All : o.open[d] = Dir /\ o.readDir[d].ok =>
            o.readDir[d].entries = {p \in Children(d) : o.open[p] # NotExist}

=============================================================================
