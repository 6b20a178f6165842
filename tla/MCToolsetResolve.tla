-------------------------- MODULE MCToolsetResolve --------------------------
(* Instances of ToolsetResolve for TLC. *)
EXTENDS ToolsetResolve, TLC

CONSTANTS p1, p2, t1, t2, a1, a2, c1, c2

\* One toolset file for all processes, or one each.
FileShared == [p \in Procs |-> t1]
FileOwn == (p1 :> t1) @@ (p2 :> t2)

\* Commit c1 packs to archive a1, c2 to a2.
BuildOf == (c1 :> a1) @@ (c2 :> a2)

Pin(a, c) == [archive |-> a, git |-> c, from |-> "github-release"]

\* Every module is declared at the lowest version.
FirstVersion == {[t \in Toolsets |-> [m \in Modules |-> 1]]}

\* Lockfiles: none yet, every mix of pins of a1 and none, pins of the first module
\* or none, and complete ones.
LocksEmpty == {[t \in Toolsets |-> NoLock]}
LocksSome == [Toolsets -> {[k \in Pkgs |-> IF k \in K THEN Pin(a1, c1) ELSE None] : K \in SUBSET Pkgs}]
LocksFirst == {[t \in Toolsets |-> NoLock],
              [t \in Toolsets |-> [k \in Pkgs |-> IF k[1] = 1 THEN Pin(a1, c1) ELSE None]]}
LocksPinned == {[t \in Toolsets |-> [k \in Pkgs |-> Pin(a1, c1)]]}

OverlaysNone == {[t \in Toolsets |-> {}]}

\* Upstream: the release is there with its tag, or only the tag is.
Shipped == [archive |-> a1, manifest |-> a1]
ReleasesShipped == {[k \in Pkgs |-> Shipped]}
ReleasesSome == [Pkgs -> {Shipped, None}]
\* Only the first version was ever released.
ReleasesMixed == {[k \in Pkgs |-> IF k[2] = 1 THEN Shipped ELSE None]}
TagsFirst == {[k \in Pkgs |-> c1]}

\* The cache: cold, or with whole entries of the first version that earlier runs put
\* there.
Whole(a) == [archive |-> a, manifest |-> a, info |-> TRUE]
CachesCold == {[k \in Pkgs |-> NoEntry]}
CachesMixed ==
  {[k \in Pkgs |-> IF k[2] = 1 THEN e ELSE NoEntry] : e \in {NoEntry} \cup {Whole(a) : a \in Archives}}

PlainResolve == {None}
AnyUpgrade == Modules \cup {None}
=============================================================================
