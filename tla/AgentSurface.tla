---------------------------- MODULE AgentSurface ----------------------------
(***************************************************************************)
(* What an agent sees of a toolset and what its calls do: the bindings of  *)
(* toolset/ (resolveTools, AgentView, ValidateCall), the dispatch of       *)
(* invoke.Run to the runner of runtime/quickts, and the two ways to call,  *)
(* mcpserver and the SDK and prelude of codemode/.                         *)
(*                                                                         *)
(* A tool's name is the sequence of its dotted parts.  A CEL expression is *)
(* [op, key]: "none" (left out), "context" (context.key), "param"          *)
(* (params.key), "default" (has(params.key) ? params.key : a literal),     *)
(* "equal" (params.key == context.key), or "broken", which does not        *)
(* compile.  CEL and the checker of TypeScript are external.               *)
(***************************************************************************)
EXTENDS Naturals, Sequences, SequencesExt, TLC

CONSTANTS
  Toolsets,   \* sequences of tools, in the order of the packages
  Configs,    \* configurations of bindings
  ArgSets,    \* what an agent may pass: functions from parameters to values
  NameOrder   \* the names in the order of strings

VARIABLES
  tools,      \* ResolvedToolset.tools
  cfg,        \* toolset.Config
  resolved,   \* bindings and hiddenParams of the ResolvedToolset, by tool name
  call,       \* the call that was made and what became of it
  stage

vars == <<tools, cfg, resolved, call, stage>>

ToolNames == Range(NameOrder)
None == <<>>
Literal == 0

-----------------------------------------------------------------------------
\* toolset/cel.go

Ok(v) == [ok |-> TRUE, val |-> v]
Error == [ok |-> FALSE, val |-> None]
Lookup(m, k) == IF k \in DOMAIN m THEN Ok(m[k]) ELSE Error

evalBinding(e, params, context) ==
  CASE e.op = "context" -> Lookup(context, e.key)
    [] e.op = "param" -> Lookup(params, e.key)
    [] e.op = "default" -> IF e.key \in DOMAIN params THEN Ok(params[e.key]) ELSE Ok(Literal)
    [] OTHER -> Error

\* A check that cannot be evaluated does not pass.
evalCheck(e, params, context) ==
  e.key \in DOMAIN params /\ e.key \in DOMAIN context /\ params[e.key] = context[e.key]

compiles(b) == b.value.op # "broken" /\ b.check.op # "broken"

-----------------------------------------------------------------------------
\* toolset/toolset.go

\* toolBindings: of several entries for one tool, the last counts.
ToolBindings(name) ==
  LET mine == SelectSeq(cfg.tools, LAMBDA bt : bt.toolRef = name)
  IN IF mine = <<>> THEN None ELSE Last(mine).bindings

\* The bindings of one tool: an explicit one before one of its resource parameter.
BindingsOf(tool) ==
  LET explicit == ToolBindings(tool.name)
      bound == {p \in DOMAIN tool.resourceParams : tool.resourceParams[p] \in DOMAIN cfg.resourceBindings}
  IN explicit @@ [p \in bound |-> cfg.resourceBindings[tool.resourceParams[p]]]

HiddenOf(tool) == {p \in DOMAIN BindingsOf(tool) : BindingsOf(tool)[p].hidden}

\* allCompiled and allHidden are keyed by name: each tool that has an entry
\* replaces the one before it.
LastOf(name, Has(_)) ==
  LET mine == SelectSeq(tools, LAMBDA t : t.name = name /\ Has(t))
  IN IF mine = <<>> THEN {} ELSE {Last(mine)}

resolveTools ==
  [n \in ToolNames |->
     LET HasBindings(t) == BindingsOf(t) # None
         HasHidden(t) == HiddenOf(t) # {}
         compiled == LastOf(n, HasBindings)
     IN [bindings |-> IF compiled = {} THEN None ELSE BindingsOf(CHOOSE t \in compiled : TRUE),
         hidden |-> UNION {HiddenOf(t) : t \in LastOf(n, HasHidden)}]]

-----------------------------------------------------------------------------
\* toolset/agentview.go

\* The values of visible bindings that can be evaluated without parameters.
BoundLiterals(tool) ==
  LET b == resolved[tool.name].bindings
      Val(p) == evalBinding(b[p].value, None, cfg.context)
      constant == {p \in DOMAIN b : p \notin resolved[tool.name].hidden /\ Val(p).ok}
  IN [p \in constant |-> Val(p).val]

\* Mutant of AgentParams: every bound parameter is left out.
AgentParamsUnbound(tool) == Range(tool.params) \ DOMAIN resolved[tool.name].bindings

\* The parameters in the agent's view: ParamsType, or filterHiddenParams without a
\* signature.
AgentParams(tool) == Range(tool.params) \ resolved[tool.name].hidden

-----------------------------------------------------------------------------
\* toolset/validate.go

ValueOf(b, p, args) == evalBinding(b[p].value, args, cfg.context)

\* Mutant of ValidateCall: a binding is a default that the agent may override.
ValidateCallDefaults(name, args) ==
  LET b == resolved[name].bindings
      valued == {p \in DOMAIN b : b[p].value.op # "none"}
  IN IF /\ \A p \in DOMAIN b : b[p].check.op # "none" => evalCheck(b[p].check, args, cfg.context)
        /\ \A p \in valued : ValueOf(b, p, args).ok
     THEN Ok(args @@ [p \in valued |-> ValueOf(b, p, args).val])
     ELSE Error

\* All checks, on what the agent has passed, then all values.
ValidateCall(name, args) ==
  LET b == resolved[name].bindings
      valued == {p \in DOMAIN b : b[p].value.op # "none"}
  IN IF /\ \A p \in DOMAIN b : b[p].check.op # "none" => evalCheck(b[p].check, args, cfg.context)
        /\ \A p \in valued : ValueOf(b, p, args).ok
     THEN Ok([p \in valued |-> ValueOf(b, p, args).val] @@ args)
     ELSE Error

\* runnerSource: the parameters of the signature by position, a missing one
\* undefined and so not in the domain here, or all of them as one object.
runnerSource(tool, full) ==
  IF tool.sig THEN [p \in Range(tool.params) \cap DOMAIN full |-> full[p]] ELSE full

-----------------------------------------------------------------------------
\* codemode/codemode.go

\* The tools object that the prelude builds: paths to namespaces or functions.
Namespace == [fn |-> FALSE, name |-> None]
Function(name) == [fn |-> TRUE, name |-> name]

Ensure(o, path) == IF path \in DOMAIN o THEN o ELSE (path :> Namespace) @@ o

\* An assignment loses what was below the path.
Assign(o, path) ==
  LET kept == {p \in DOMAIN o : ~IsPrefix(path, p)}
  IN (path :> Function(path)) @@ [p \in kept |-> o[p]]

AddTool(o, name) ==
  Assign(FoldLeft(LAMBDA acc, i : Ensure(acc, SubSeq(name, 1, i)), o, [i \in 1 .. Len(name) - 1 |-> i]), name)

\* sortedTools.
sortedTools == SelectSeq(NameOrder, LAMBDA n : \E i \in 1 .. Len(tools) : tools[i].name = n)

\* Mutant of preludeForTools: the tools as the packages list them.
preludeUnsorted == FoldLeft(LAMBDA o, t : AddTool(o, t.name), None, tools)

preludeForTools == FoldLeft(AddTool, None, sortedTools)

\* The paths that a script may use without failing the type check.
typecheckSDK == {n \in Range(sortedTools) : Len(n) = 2}

-----------------------------------------------------------------------------

NoCall == [status |-> "none", name |-> None, args |-> None, tool |-> None, given |-> None]

Init ==
  /\ tools \in Toolsets
  /\ cfg \in Configs
  /\ resolved = [n \in ToolNames |-> [bindings |-> None, hidden |-> {}]]
  /\ call = NoCall
  /\ stage = "build"

Resolve ==
  /\ stage = "build"
  /\ IF \A i \in 1 .. Len(tools) : \A p \in DOMAIN BindingsOf(tools[i]) : compiles(BindingsOf(tools[i])[p])
     THEN resolved' = resolveTools /\ stage' = "resolved"
     ELSE UNCHANGED resolved /\ stage' = "failed"
  /\ UNCHANGED <<tools, cfg, call>>

\* invoke.Run: validate, then the first tool of the name.
Run(name, args) ==
  LET mine == SelectSeq(tools, LAMBDA t : t.name = name)
      full == ValidateCall(name, args)
  IN call' = IF mine = <<>> \/ ~full.ok
             THEN [NoCall EXCEPT !.status = "refused", !.name = name, !.args = args]
             ELSE [status |-> "ran", name |-> name, args |-> args, tool |-> mine[1],
                   given |-> runnerSource(mine[1], full.val)]

\* handleToolCall of mcpserver.
handleToolCall(name, args) ==
  /\ stage = "resolved"
  /\ Run(name, args)
  /\ stage' = "called"
  /\ UNCHANGED <<tools, cfg, resolved>>

\* A call in a script: first the type check, then the object of the prelude.
CodeCall(path, args) ==
  /\ stage = "resolved"
  /\ path \in typecheckSDK
  /\ preludeForTools[path].fn
  /\ Run(preludeForTools[path].name, args)
  /\ stage' = "called"
  /\ UNCHANGED <<tools, cfg, resolved>>

Next ==
  \/ Resolve
  \/ \E n \in ToolNames, a \in ArgSets : handleToolCall(n, a) \/ CodeCall(n, a)

-----------------------------------------------------------------------------
\* Properties

\* The code keeps bindings by tool name and takes the last entry of a tool: the
\* properties are about toolsets and configurations where neither matters.
Distinct ==
  /\ \A i, j \in 1 .. Len(tools) : i # j => tools[i].name # tools[j].name
  /\ \A i, j \in 1 .. Len(cfg.tools) : i # j => cfg.tools[i].toolRef # cfg.tools[j].toolRef

\* The binding that the configuration means for a parameter of a tool.
Explicit(tool, p) ==
  {cfg.tools[i].bindings[p] :
     i \in {j \in 1 .. Len(cfg.tools) : cfg.tools[j].toolRef = tool.name /\ p \in DOMAIN cfg.tools[j].bindings}}
Meant(tool, p) ==
  IF Explicit(tool, p) # {} THEN Explicit(tool, p)
  ELSE {cfg.resourceBindings[r] : r \in {tool.resourceParams[q] : q \in {p} \cap DOMAIN tool.resourceParams}
                                        \cap DOMAIN cfg.resourceBindings}

\* A tool runs only when what the agent has passed, before any binding replaces it,
\* satisfies every check ("to validate what the agent actually sent"), and then has, for
\* a parameter bound to the context, the harness's value, whatever the agent has passed
\* (resolveTools, ValidateCall, runnerSource).
HarnessDecides ==
  call.status = "ran" /\ Distinct =>
    \A p \in Range(call.tool.params) : \A b \in Meant(call.tool, p) :
      /\ b.check.op # "none" => evalCheck(b.check, call.args, cfg.context)
      /\ b.value.op = "context" => p \in DOMAIN call.given /\ call.given[p] = cfg.context[b.value.key]

\* The agent's view is true.  A call with all of its parameters that satisfies the
\* checks, where the context has what bindings read and hidden bindings read nothing
\* else, runs, and gives the tool all of its parameters; and a literal shown for a
\* parameter is the value that the tool runs with, when its expression reads its
\* parameters unguarded or not at all.
ViewHolds ==
  /\ call.status # "none" /\ Distinct =>
       \A i \in 1 .. Len(tools) :
         LET b == resolved[call.name].bindings
         IN (/\ tools[i].name = call.name
             /\ AgentParams(tools[i]) \subseteq DOMAIN call.args
             /\ \A p \in DOMAIN b :
                  /\ b[p].hidden => b[p].value.op \in {"context", "default"}
                  /\ b[p].value.op = "context" => b[p].value.key \in DOMAIN cfg.context
                  /\ b[p].value.op = "param" => b[p].value.key \in DOMAIN call.args
                  /\ b[p].check.op # "none" => evalCheck(b[p].check, call.args, cfg.context))
         => call.status = "ran" /\ Range(tools[i].params) \subseteq DOMAIN call.given
  /\ call.status = "ran" =>
       \A p \in DOMAIN BoundLiterals(call.tool) \cap Range(call.tool.params) :
         resolved[call.name].bindings[p].value.op # "default" => call.given[p] = BoundLiterals(call.tool)[p]

\* The prelude's object has a function for every tool, at the path of its name, also
\* when a tool's name is the namespace of another (preludeForTools).
EveryToolInPrelude ==
  \A i \in 1 .. Len(tools) :
    tools[i].name \in DOMAIN preludeForTools /\ preludeForTools[tools[i].name] = Function(tools[i].name)

=============================================================================
