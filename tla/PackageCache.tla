---------------------------- MODULE PackageCache ----------------------------
(***************************************************************************)
(* The on-disk package cache of registry/cache.go, one entry per           *)
(* module@version, and what packaging.LoadArchive accepts of it.           *)
(*                                                                         *)
(* An entry is three plain files: the archive (.pkg), the manifest         *)
(* (.manifest) and the info file (.info).  The bytes of an archive are     *)
(* identified with their sha256, so a member of Archives is both.  A       *)
(* manifest is identified with the archive it was compiled for: manifest a *)
(* records the sha256 of archive a and agrees with a's internal manifest.  *)
(***************************************************************************)

CONSTANTS
  Archives,   \* archive contents that were ever published
  None,       \* no file, no entry, no value
  Empty,      \* a file that os.WriteFile has truncated and not yet written
  Torn        \* bytes that are neither empty nor any published content

ASSUME CacheAssumption ==
  /\ {None, Empty, Torn} \cap Archives = {}
  /\ None # Empty /\ None # Torn /\ Empty # Torn

\* What a file that exists may hold.
Contents == Archives \cup {Empty, Torn}

Entry == [archive : Contents \cup {None}, manifest : Contents \cup {None}, info : BOOLEAN]

NoEntry == [archive |-> None, manifest |-> None, info |-> FALSE]

\* Cache.Has stats the three files.  Nothing in the program removes one, so the
\* three stats answer as one look at the entry does.
Has(e) == e.archive # None /\ e.manifest # None /\ e.info

\* What the one write(2) of os.WriteFile(file, data) leaves in a file that held
\* old: data, and behind it the tail of old when another process has put longer
\* bytes there since this one truncated the file.
Overwrite(old, data) == IF old \in {Empty, data} THEN {data} ELSE {data, Torn}

\* LoadArchive accepts archive bytes a under external manifest bytes m: the
\* manifest parses, records a's sha256 and agrees with a's internal manifest.
Intact(m, a) == a \in Archives /\ m = a

=============================================================================
