---------------------------- MODULE MCFunctions ----------------------------
(***************************************************************************)
(* The modules that model mostly functions, each over its own inputs:      *)
(* "part" is chosen at the start and says whose.                           *)
(***************************************************************************)
EXTENDS Integers, Sequences, FiniteSets, FiniteSetsExt, TLC

VARIABLES
  part,
  answer, current, listed, step,                  \* VersionOrder
  list, meant, calls, sent, reply, got, at,       \* Headers
  base, declared, globs, tar, mem, phase,         \* PackageFS
  tools, cfg, resolved, call, stage,              \* AgentSurface
  surface, shown, types, done                     \* Declaration

-----------------------------------------------------------------------------
\* Versions

Nums(a, b, c) == <<a, b, c>>
Num(n, t) == [isDigits |-> TRUE, number |-> n, text |-> t]
Word(t) == [isDigits |-> FALSE, number |-> 0, text |-> t]
Rel(a, p, t) == [kind |-> "release", nums |-> <<a, 0, 0>>, pre |-> p, text |-> t]
Pse(s, c, t) == [kind |-> "pseudo", stamp |-> s, commit |-> c, text |-> t]

\* In the order of their spellings.
v0early == Pse(1, 2, 1)                       \* v0.0.0-2024...-b
v0late == Pse(2, 1, 2)                        \* v0.0.0-2025...-a
v1 == Rel(1, <<>>, 3)                         \* v1.0.0
v1built == Rel(1, <<>>, 4)                    \* v1.0.0+b
v1pre10 == Rel(1, <<Num(10, 1)>>, 5)          \* v1.0.0-10
v1pre2 == Rel(1, <<Num(2, 2)>>, 6)            \* v1.0.0-2
v1preA == Rel(1, <<Word(3)>>, 7)              \* v1.0.0-a
v1preA1 == Rel(1, <<Word(3), Num(1, 0)>>, 8)  \* v1.0.0-a.1
v10 == Rel(10, <<>>, 9)                       \* v10.0.0
v100 == Rel(100, <<>>, 10)                    \* v100.0.0, too large here
v9 == Rel(9, <<>>, 11)                        \* v9.0.0
latest == [kind |-> "other", text |-> 0]      \* no version

AllTags == {v0early, v0late, v1, v1built, v1pre10, v1pre2, v1preA, v1preA1, v10, v100, v9, latest}

Ok(S) == [status |-> "ok", tags |-> S]
Missing == [status |-> "notFound", tags |-> {}]
Failing == [status |-> "error", tags |-> {}]
UpToThree == {Ok(S) : S \in UNION {kSubset(k, AllTags) : k \in 0 .. 3}}
Answers ==
  [github : UpToThree \cup {Missing, Failing}, git : {Failing, Ok({}), Ok({v1, v1built}), Ok({v9, v10})}]
Named == {v1, v9}

V == INSTANCE VersionOrder
  WITH Tags <- AllTags, MaxInt <- 99, Published <- Answers, Declared <- Named, phase <- step

-----------------------------------------------------------------------------
\* Headers

HeaderNames == <<"accept", "set-cookie", "x">>
HowSpelt == {<<"accept", "lower">>, <<"set-cookie", "lower">>, <<"x", "lower">>, <<"x", "upper">>, <<"bad name", "lower">>}
HowPadded == {<<"v", "">>, <<"w", "both">>, <<"bad", "">>, <<"wide", "">>}
Values0 == {<<>>, <<<<"v">>>>, <<<<"v">>, <<"w">>>>, <<<<"w", "v">>, <<"v">>>>, <<<<"wide">>>>}
HeaderReplies == [{"accept", "set-cookie", "x"} -> Values0]

H == INSTANCE Headers
  WITH Order <- HeaderNames, Spellings <- HowSpelt, Padded <- HowPadded, Wide <- {"wide"},
       Invalid <- {"bad name", "bad"}, Replies <- HeaderReplies, MaxCalls <- 3

-----------------------------------------------------------------------------
\* Files

ManifestPath == <<"toolbox.pkg.json">>
RunnerPath == <<"__run">>
TreePaths == {<<"a">>, <<"a", "a">>, <<"a", "b">>, <<"a", "b", "a">>, <<"b">>}

\* A file's parents are directories.
DirectoryTrees ==
  {t \in [files : SUBSET (TreePaths \cup {ManifestPath}), dirs : SUBSET {<<"a">>, <<"a", "b">>}] :
     /\ t.files \cap t.dirs = {}
     /\ \A p \in t.files \cup t.dirs : Len(p) > 1 => SubSeq(p, 1, Len(p) - 1) \in t.dirs}

F == INSTANCE PackageFS
  WITH Paths <- TreePaths \cup {ManifestPath, RunnerPath}, Manifest <- ManifestPath,
       Runner <- RunnerPath, Trees <- DirectoryTrees

-----------------------------------------------------------------------------
\* Tools and bindings

ab == <<"a", "b">>
OfTool(n, sig, ps, rp) == [name |-> n, sig |-> sig, params |-> ps, resourceParams |-> rp]
toolAB == OfTool(ab, TRUE, <<"p", "q">>, "p" :> "user")
otherAB == OfTool(ab, FALSE, <<"q">>, "q" :> "user")
toolA == OfTool(<<"a">>, TRUE, <<>>, <<>>)
toolABC == OfTool(<<"a", "b", "c">>, FALSE, <<"p">>, "p" :> "user")
SomeTools == {toolAB, otherAB, toolA, toolABC}
ToolSequences ==
  {<<s>> : s \in SomeTools} \cup {<<s, t>> : s, t \in SomeTools} \cup {<<toolABC, toolAB, toolA>>}

Expr(op, key) == [op |-> op, key |-> key]
Bind(value, hidden, check) == [value |-> value, hidden |-> hidden, check |-> check]
NoExpr == Expr("none", "")
ContextHidden == Bind(Expr("context", "p"), TRUE, NoExpr)
ContextShown == Bind(Expr("context", "p"), FALSE, NoExpr)
ParamBindings ==
  {ContextHidden, ContextShown, Bind(Expr("param", "q"), FALSE, NoExpr), Bind(Expr("default", "q"), FALSE, NoExpr),
   Bind(NoExpr, FALSE, Expr("equal", "q")), Bind(Expr("context", "p"), FALSE, Expr("equal", "p")),
   Bind(NoExpr, TRUE, NoExpr), Bind(Expr("broken", ""), FALSE, NoExpr)}
BoundTools ==
  {<<>>} \cup {<<[toolRef |-> ab, bindings |-> "p" :> b]>> : b \in ParamBindings}
  \cup {<<[toolRef |-> ab, bindings |-> ("p" :> b) @@ ("q" :> ContextHidden)]>> : b \in ParamBindings}
  \cup {<<[toolRef |-> ab, bindings |-> "p" :> ContextHidden], [toolRef |-> ab, bindings |-> "q" :> ContextShown]>>}
BindingConfigs ==
  [tools : BoundTools, resourceBindings : {<<>>, "user" :> ContextHidden, "user" :> ContextShown},
   context : {<<>>, ("p" :> 1) @@ ("q" :> 1)}]
AgentArgs == UNION {[S -> {1, 2}] : S \in SUBSET {"p", "q"}}

S == INSTANCE AgentSurface
  WITH Toolsets <- ToolSequences, Configs <- BindingConfigs, ArgSets <- AgentArgs,
       NameOrder <- <<<<"a">>, ab, <<"a", "b", "c">>>>

-----------------------------------------------------------------------------
\* Declarations

Object(type, desc) == [props |-> {"id"}, types |-> {type}, desc |-> desc]
idString == Object("string", "line")
idNumber == Object("number", "line")
idLong == Object("string", "multi")
idBare == Object("string", "none")
defD == <<"Definition", "D">>
defE == <<"Definition", "E">>
resultGet == <<"Result", "get">>
NotAnObject == [props |-> {}, types |-> {}, desc |-> "none"]
Params(ns, ts) == {<<[name |-> n, type |-> t]>> : n \in ns, t \in ts}
OneTool(n, rs, ps, pds, rds) == [name : {n}, returns : rs, params : ps, paramDefs : pds, returnDefs : rds]
Returned == {NotAnObject, idString, idNumber, idLong, idBare}
ToolSurfaces ==
  {<<s, t>> : s \in OneTool(<<"a", "get">>, Returned, {<<>>} \cup Params({"p"}, {idString, idBare}),
                           {{}, {<<defD, idString>>}, {<<defD, idString>>, <<defE, idString>>}, {<<defD, idLong>>}},
                           {{}, {<<resultGet, idLong>>}}),
              t \in OneTool(<<"b", "get">>, Returned, {<<>>} \cup Params({"p", "q"}, {idString, idBare}),
                           {{}, {<<defD, idString>>}}, {{}})}
  \cup {<<s, t, u>> : s \in OneTool(<<"a", "get">>, Returned, {<<>>}, {{}, {<<defD, idString>>}}, {{}}),
                     t \in OneTool(<<"a", "list">>, Returned, {<<>>}, {{}}, {{}}),
                     u \in OneTool(<<"b", "get">>, Returned, {<<>>}, {{}}, {{}})}

D == INSTANCE Declaration WITH Surfaces <- ToolSurfaces, declared <- types

-----------------------------------------------------------------------------

versionVars == <<answer, current, listed, step>>
headerVars == <<list, meant, calls, sent, reply, got, at>>
fileVars == <<base, declared, globs, tar, mem, phase>>
surfaceVars == <<tools, cfg, resolved, call, stage>>
typeVars == <<surface, shown, types, done>>
vars == <<part, versionVars, headerVars, fileVars, surfaceVars, typeVars>>

\* The parts that are not chosen stay in one state.
Init ==
  /\ part \in {"versions", "headers", "files", "surface", "types"}
  /\ IF part = "versions" THEN V!Init
     ELSE answer = [github |-> Missing, git |-> Failing] /\ current = v1 /\ listed = <<>> /\ step = "idle"
  /\ IF part = "headers" THEN H!Init
     ELSE /\ list = <<>> /\ meant = <<>> /\ calls = 0 /\ sent = <<>> /\ reply = <<>> /\ got = <<>>
          /\ at = "idle"
  /\ IF part = "files" THEN F!Init
     ELSE /\ base = [files |-> {}, dirs |-> {}] /\ declared = {} /\ globs = {} /\ tar = {}
          /\ mem = F!Empty /\ phase = "idle"
  /\ IF part = "surface" THEN S!Init
     ELSE tools = <<>> /\ cfg = <<>> /\ resolved = <<>> /\ call = S!NoCall /\ stage = "idle"
  /\ IF part = "types" THEN D!Init
     ELSE surface = <<>> /\ shown = <<>> /\ types = {} /\ done = FALSE

Next ==
  /\ UNCHANGED part
  /\ \/ part = "versions" /\ V!Next /\ UNCHANGED <<headerVars, fileVars, surfaceVars, typeVars>>
     \/ part = "headers" /\ H!Next /\ UNCHANGED <<versionVars, fileVars, surfaceVars, typeVars>>
     \/ part = "files" /\ F!Next /\ UNCHANGED <<versionVars, headerVars, surfaceVars, typeVars>>
     \/ part = "surface" /\ S!Next /\ UNCHANGED <<versionVars, headerVars, fileVars, typeVars>>
     \/ part = "types" /\ D!Next /\ UNCHANGED <<versionVars, headerVars, fileVars, surfaceVars>>

Spec == Init /\ [][Next]_vars

-----------------------------------------------------------------------------
\* The properties of the parts.  Each holds of the states of its own part.

\* ListVersions and runResolve with --upgrade: the list is sorted by the precedence of
\* semantic versioning, newest first, and the upgrade takes what is newest.
UpgradedToNewest == part = "versions" => V!UpgradedToNewest

\* goFetch and Fetch: the request carries, for every name, the values that the script's
\* calls on its Headers object gave it, in that order.
SentAsMeant == part = "headers" => H!SentAsMeant

\* NewHeadersFromHTTP and combined: a script reads the values that the response had,
\* in order, each cookie apart.
ResponseAsSent == part = "headers" => H!ResponseAsSent

\* Pack, then LoadArchive: the loaded package has the files of the source, lists them in
\* the same directories, and has the manifest that Pack has made.
ArchiveIsSource == part = "files" => F!ArchiveIsSource

\* fsoverlay.FS with the runner's file: what ReadDir lists can be opened, and what can
\* be opened is listed.
OverlayConsistent == part = "files" => F!OverlayConsistent

\* ValidateCall and runnerSource: a tool runs only if every check holds of what the agent
\* has passed, and a parameter bound to the context has the harness's value.
HarnessDecides == part = "surface" => S!HarnessDecides

\* AgentView and ValidateCall: arguments for the parameters in the view are enough for a
\* call, and a literal in the view is the value the tool runs with.
ViewHolds == part = "surface" => S!ViewHolds

\* preludeForTools: every tool is a function of the tools object, also when its name
\* extends another's.
EveryToolInPrelude == part = "surface" => S!EveryToolInPrelude

\* DeclarationSource: a type shown by name is declared once, with the shape that the
\* tool's signature has, when every derived name has one meaning.
NamedTypesFaithful == part = "types" => D!NamedTypesFaithful

=============================================================================
