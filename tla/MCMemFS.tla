------------------------------ MODULE MCMemFS ------------------------------
(***************************************************************************)
(* Two instances of MemFS, chosen between at the start: a flat one with    *)
(* open files, and a deep one of nodes only.                               *)
(***************************************************************************)
EXTENDS MemFS

VARIABLE instance

\* The root and the paths directly below it.
OneLevel == BoundedSeq(Names, 1)
Siblings == {pair \in OneLevel \X OneLevel : Len(pair[1]) = 1 /\ Len(pair[2]) = 1}

\* All cleaned paths of at most two components, and two that need cleaning.
TwoLevels == BoundedSeq(Names, 2) \cup {<<"..">>, <<"a", "..", ".", "b">>}
AllRenames == BoundedSeq(Names, 2) \X BoundedSeq(Names, 2)

OneChunk == {<<1>>}

Flat == INSTANCE MemFS
  WITH Spellings <- OneLevel, Renames <- Siblings,
       MaxNodes <- 3, MaxDepth <- 1, MaxLen <- 2, MaxHandles <- 2

MCInit == instance \in {"flat", "deep"} /\ Init
MCNext ==
  /\ \/ instance = "deep" /\ Next
     \/ instance = "flat" /\ Flat!Next
  /\ UNCHANGED instance
MCSpec == MCInit /\ [][MCNext]_<<vars, instance>>

\* The flat node map stays a tree under every step but the four that Careful
\* leaves out: what ReadDir reaches from the root is everything there is.
TreeKept == [][instance = "deep" => KeepsTree]_vars

\* Rename takes along everything below the node, whatever order the map yields
\* it in, and leaves the other nodes alone.
RenameIsMove == [][instance = "deep" => MovesBelow]_vars

\* A write through an append handle keeps every byte in the file, whoever wrote,
\* truncated or replaced it since the handle last moved.
AppendsKeepData == [][instance = "flat" => Flat!AppendKeeps]_vars
=============================================================================
