-------------------------------- MODULE MemFS --------------------------------
(***************************************************************************)
(* vfs/memfs.go: the in-memory filesystem that a tool's script and its     *)
(* WASM guest share, with the handle table of vfs/server.go.  Nodes are    *)
(* kept in one flat map keyed by cleaned path, and handles name a path.    *)
(* Every call runs under the filesystem's lock, so a call is one step; a   *)
(* call that returns an error changes nothing and is no step.              *)
(***************************************************************************)
EXTENDS Integers, SequencesExt, FiniteSetsExt, Functions

CONSTANTS
  Names,       \* path components
  Spellings,   \* the paths, cleaned or not, that requests name
  Bytes,       \* file contents are sequences of these; 0 is one of them
  Chunks,      \* what one write request carries
  Renames,     \* the pairs <<from, to>> that rename requests name
  MaxNodes,    \* bound: nodes in the map
  MaxDepth,    \* bound: components of a path
  MaxLen,      \* bound: file length and file position
  MaxHandles   \* bound: handles ever handed out

ASSUME MemFSAssumption ==
  /\ {"", ".", ".."} \cap Names = {}
  /\ Spellings \subseteq Seq(Names \cup {".", ".."})
  /\ 0 \in Bytes /\ Chunks \subseteq Seq(Bytes)
  /\ Renames \subseteq Spellings \X Spellings
  /\ {MaxNodes, MaxDepth, MaxLen, MaxHandles} \subseteq Nat

Root == <<>>

\* path.Clean("/" + p): "." goes, ".." takes the component before it along.
cleanPath(p) ==
  FoldLeft(LAMBDA acc, c : CASE c = "."  -> acc
                             [] c = ".." -> IF acc = Root THEN Root ELSE Front(acc)
                             [] OTHER    -> Append(acc, c), Root, p)

Paths == {cleanPath(p) : p \in Spellings}

\* path.Dir
Dir(p) == IF p = Root THEN Root ELSE Front(p)

NewDir == [isDir |-> TRUE, data |-> <<>>]

NewFile(data) == [isDir |-> FALSE, data |-> data]

VARIABLES
  nodes,       \* the map from path to node
  handles,     \* the server's handle table: id -> handle
  nextHandle   \* the last id handed out

vars == <<nodes, handles, nextHandle>>

IsDir(p) == p \in DOMAIN nodes /\ nodes[p].isDir

IsFile(p) == p \in DOMAIN nodes /\ ~nodes[p].isDir

\* m[p] = n, and delete(m, p), on a Go map.
Put(m, p, n) == [q \in DOMAIN m \cup {p} |-> IF q = p THEN n ELSE m[q]]

Without(m, p) == Restrict(m, DOMAIN m \ {p})

\* The nodes whose key starts with p + "/".  For the root that prefix is "//": only
\* keys that Rename has made with the root as destination, "/" + "/child", have it.
Below(p) ==
  {q \in DOMAIN nodes : IF p = Root THEN q # Root /\ Head(q) = "" ELSE IsStrictPrefix(p, q)}

\* to + q[len(from):], for q in Below(from).
Moved(from, to, q) ==
  (IF to = Root THEN <<"">> ELSE to)
    \o (IF from = Root THEN Tail(q) ELSE SubSeq(q, Len(from) + 1, Len(q)))

-----------------------------------------------------------------------------

Init ==
  /\ nodes = [p \in {Root} |-> NewDir]
  /\ handles = <<>>
  /\ nextHandle = 0

CreateDir(p) ==
  /\ p \notin DOMAIN nodes
  /\ IsDir(Dir(p))
  /\ Cardinality(DOMAIN nodes) < MaxNodes
  /\ nodes' = Put(nodes, p, NewDir)
  /\ UNCHANGED <<handles, nextHandle>>

\* Mutant of RemoveDir: only the directory's own node is looked at.
RemoveDirAnyway(p) ==
  /\ IsDir(p)
  /\ nodes' = Without(nodes, p)
  /\ UNCHANGED <<handles, nextHandle>>

RemoveDir(p) ==
  /\ IsDir(p)
  /\ Below(p) = {}
  /\ nodes' = Without(nodes, p)
  /\ UNCHANGED <<handles, nextHandle>>

\* The loop over the children runs in the order the Go map yields them, and it
\* writes and deletes as it goes.
MoveAll(from, to, order) ==
  FoldLeft(LAMBDA m, q : Without(Put(m, Moved(from, to, q), m[q]), q), nodes, order)

\* Mutant of Rename: the children stay where they are.
RenameAlone(from, to) ==
  /\ from \in DOMAIN nodes
  /\ IsDir(Dir(to))
  /\ nodes' = Without(Put(nodes, to, nodes[from]), from)
  /\ UNCHANGED <<handles, nextHandle>>

Rename(from, to) ==
  /\ from \in DOMAIN nodes
  /\ IsDir(Dir(to))
  /\ \A q \in Below(from) : Len(Moved(from, to, q)) <= MaxDepth
  /\ \E order \in SetToSeqs(IF IsDir(from) THEN Below(from) ELSE {}) :
       nodes' = Without(Put(MoveAll(from, to, order), to, nodes[from]), from)
  /\ UNCHANGED <<handles, nextHandle>>

RemoveFile(p) ==
  /\ IsFile(p)
  /\ nodes' = Without(nodes, p)
  /\ UNCHANGED <<handles, nextHandle>>

\* The script's writeFile: whatever was at p is replaced by a file.
WriteFile(p, data) ==
  /\ IsDir(Dir(p))
  /\ p \in DOMAIN nodes \/ Cardinality(DOMAIN nodes) < MaxNodes
  /\ nodes' = Put(nodes, p, NewFile(data))
  /\ UNCHANGED <<handles, nextHandle>>

\* Open with the options in opts; the read and write options are recorded on the
\* handle and never looked at again, except that truncating needs write.
Open(p, opts) ==
  /\ nextHandle < MaxHandles
  /\ \/ /\ "create_new" \in opts \/ "create" \in opts
        /\ p \notin DOMAIN nodes
        /\ IsDir(Dir(p))
        /\ Cardinality(DOMAIN nodes) < MaxNodes
        /\ nodes' = Put(nodes, p, NewFile(<<>>))
     \/ /\ "create_new" \notin opts
        /\ IsFile(p)
        /\ nodes' = IF {"truncate", "write"} \subseteq opts
                      THEN Put(nodes, p, NewFile(<<>>)) ELSE nodes
  /\ nextHandle' = nextHandle + 1
  /\ handles' = Put(handles, nextHandle + 1, [path |-> p, pos |-> 0, append |-> "append" \in opts])

-----------------------------------------------------------------------------
\* Calls on a handle.  The node is looked up by the handle's path every time.

Live(h) == h \in DOMAIN handles /\ handles[h].path \in DOMAIN nodes

Data(h) == nodes[handles[h].path].data

\* data resized to n bytes, as make and copy, or a shorter slice, leave it.
Resized(data, n) == [i \in 1..n |-> IF i <= Len(data) THEN data[i] ELSE 0]

FileRead(h, n) ==
  /\ Live(h)
  /\ handles[h].pos < Len(Data(h))
  /\ handles' = [handles EXCEPT ![h].pos = Min({@ + n, Len(Data(h))})]
  /\ UNCHANGED <<nodes, nextHandle>>

\* Mutant of WritePos: append is only looked at when the file is opened.
WritePosStale(h) == handles[h].pos

WritePos(h) == IF handles[h].append THEN Len(Data(h)) ELSE handles[h].pos

FileWrite(h, chunk) ==
  /\ Live(h)
  /\ LET pos   == WritePos(h)
         end   == pos + Len(chunk)
         grown == Resized(Data(h), Max({end, Len(Data(h))}))
     IN  /\ end <= MaxLen
         /\ nodes' = [nodes EXCEPT ![handles[h].path].data =
                        [i \in DOMAIN grown |-> IF i \in (pos + 1)..end THEN chunk[i - pos]
                                                ELSE grown[i]]]
         /\ handles' = [handles EXCEPT ![h].pos = end]
  /\ UNCHANGED nextHandle

\* A seek to any position that is not negative, also behind the end.
FileSeek(h, pos) ==
  /\ Live(h)
  /\ pos \in 0..MaxLen
  /\ handles' = [handles EXCEPT ![h].pos = pos]
  /\ UNCHANGED <<nodes, nextHandle>>

FileSetLen(h, n) ==
  /\ Live(h)
  /\ n \in 0..MaxLen
  /\ nodes' = [nodes EXCEPT ![handles[h].path].data = Resized(@, n)]
  /\ UNCHANGED <<handles, nextHandle>>

FileClose(h) ==
  /\ h \in DOMAIN handles
  /\ handles' = Without(handles, h)
  /\ UNCHANGED <<nodes, nextHandle>>

OpenOpts == SUBSET {"write", "append", "create", "create_new", "truncate"}

HandleCall == \E h \in DOMAIN handles :
  \/ \E n \in 1..MaxLen : FileRead(h, n)
  \/ \E chunk \in Chunks : FileWrite(h, chunk)
  \/ \E n \in 0..MaxLen : FileSeek(h, n) \/ FileSetLen(h, n)
  \/ FileClose(h)

PathCall == \E p \in Paths :
  \/ CreateDir(p) \/ RemoveFile(p) \/ RemoveDir(p)
  \/ \E opts \in OpenOpts : Open(p, opts)
  \/ \E chunk \in Chunks : WriteFile(p, chunk)

RenameCall == \E pair \in Renames : Rename(cleanPath(pair[1]), cleanPath(pair[2]))

Next == HandleCall \/ PathCall \/ RenameCall

Spec == Init /\ [][Next]_vars

-----------------------------------------------------------------------------
\* Properties

\* Every node hangs in a directory, up to the root: what ReadDir can reach from
\* the root, and so what is copied to and from a guest, is everything there is.
Tree == Root \in DOMAIN nodes /\ \A p \in DOMAIN nodes : IsDir(Dir(p))

\* Where q belongs when from becomes to.
Place(from, to, q) == to \o SubSeq(q, Len(from) + 1, Len(q))

Apart(p, q) == ~IsPrefix(p, q) /\ ~IsPrefix(q, p)

\* All calls but four: removing the root, renaming a node into itself or onto one
\* of its ancestors, and putting a file over a directory that is not empty, by
\* a rename or by writeFile.
Careful ==
  \/ HandleCall
  \/ \E p \in Paths :
       \/ CreateDir(p) \/ RemoveFile(p)
       \/ p # Root /\ RemoveDir(p)
       \/ \E opts \in OpenOpts : Open(p, opts)
       \/ p # Root /\ Below(p) = {} /\ \E chunk \in Chunks : WriteFile(p, chunk)
  \/ \E from, to \in Paths :
       /\ Apart(from, to)
       /\ IsDir(from) \/ Below(to) = {}
       /\ Rename(from, to)

\* The flat map stays a tree under every call but the four: RemoveDir refuses a
\* directory with nodes below it, Rename takes them along, and no call makes a
\* node without a parent.
KeepsTree == Tree /\ ~Tree' => ~Careful

\* In a tree a rename between paths that do not contain one another moves the
\* node and everything below it, whatever order the map yields the children in,
\* and leaves the other nodes alone.
MovesBelow ==
  Tree => \A from \in Paths \cap DOMAIN nodes, to \in Paths :
    Apart(from, to) /\ Rename(from, to) =>
      LET gone == {q \in DOMAIN nodes : IsPrefix(from, q)}
          come == {Place(from, to, q) : q \in gone}
      IN  /\ DOMAIN nodes' = (DOMAIN nodes \ gone) \cup come
          /\ \A q \in gone : nodes'[Place(from, to, q)] = nodes[q]
          /\ \A q \in DOMAIN nodes \ (gone \cup come) : nodes'[q] = nodes[q]

\* A write through an append handle keeps every byte that is in the file, whoever
\* wrote, truncated or replaced it since the handle last moved.
AppendKeeps ==
  \A h \in DOMAIN handles, chunk \in Chunks :
    handles[h].append /\ FileWrite(h, chunk) =>
      IsPrefix(Data(h), nodes'[handles[h].path].data)

=============================================================================
