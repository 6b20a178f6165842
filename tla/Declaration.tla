---------------------------- MODULE Declaration ----------------------------
(***************************************************************************)
(* codemode/declaration.go: the types in the declaration that an agent     *)
(* reads.  A type that several tools share gets a name; the names come     *)
(* from the definitions of the sources, from methods and from parameters,  *)
(* and each is declared once.                                              *)
(*                                                                         *)
(* An object type is [props, types, desc]: the names of its properties,    *)
(* their types and what comments they have ("none", "line", "multi");      *)
(* NoObject is any other type.  A type is shown by name or as it is.       *)
(***************************************************************************)
EXTENDS Naturals, Sequences, SequencesExt, FiniteSets, TLC

CONSTANT
  Surfaces    \* sequences of tools, sorted by name

VARIABLES
  surface,    \* the tools of the agent's view
  shown,      \* per tool: the type of its return and of its parameters
  declared,   \* the declarations: <<name, object type>>
  done

vars == <<surface, shown, declared, done>>

NoObject == [props |-> {}, types |-> {}, desc |-> "none"]
Tools == Range(surface)
AsIs(type) == [named |-> FALSE, name |-> <<>>, type |-> type]
ByName(name) == [named |-> TRUE, name |-> name, type |-> NoObject]

hasDescriptions(s) == s.desc # "none"

\* Mutant of canonicalReturnTypeKey: the types of the properties are left out.
canonicalKeyUntyped(s) == <<s.props, s.desc>>

canonicalReturnTypeKey(s) == <<s.props, s.types, s.desc>>

\* The names that the code derives.
ResultName(tool) == <<"Result", Last(tool.name)>>
ParamName(p) == <<"Param", p.name>>

Definitions(tool) == tool.paramDefs \cup tool.returnDefs

-----------------------------------------------------------------------------
\* Definitions

\* collectUniqueDeclarations: the first definition of a name gives the properties
\* of every described one of that name.
defType(name) ==
  LET i == CHOOSE i \in 1 .. Len(surface) :
             /\ \E d \in Definitions(surface[i]) : d[1] = name
             /\ \A j \in 1 .. i - 1 : \A d \in Definitions(surface[j]) : d[1] # name
  IN (CHOOSE d \in Definitions(surface[i]) : d[1] = name)[2]

enhanceDeclWithDescriptions(d) ==
  IF hasDescriptions(defType(d[1])) THEN <<d[1], defType(d[1])>> ELSE d

collectUniqueDeclarations == {enhanceDeclWithDescriptions(d) : d \in UNION {Definitions(t) : t \in Tools}}

\* collectDefinitionStructures: a key's name is one of the first tool that defines it.
\* Within a tool the order is that of a Go map.
DefKeys == {canonicalReturnTypeKey(d[2]) : d \in UNION {t.paramDefs : t \in Tools}}
NamesOf(tool, k) == {d[1] : d \in {e \in tool.paramDefs : canonicalReturnTypeKey(e[2]) = k}}
FirstNames(k) ==
  LET i == CHOOSE i \in 1 .. Len(surface) :
             NamesOf(surface[i], k) # {} /\ \A j \in 1 .. i - 1 : NamesOf(surface[j], k) = {}
  IN NamesOf(surface[i], k)
collectDefinitionStructures ==
  {f \in [DefKeys -> UNION {FirstNames(k) : k \in DefKeys}] : \A k \in DefKeys : f[k] \in FirstNames(k)}

deriveName(defNames, k, fallback) == IF k \in DOMAIN defNames THEN defNames[k] ELSE fallback

-----------------------------------------------------------------------------
\* Parameters

\* Where each object type occurs, in the order of tools and their parameters.
Occurrences(k) ==
  FlattenSeq([i \in 1 .. Len(surface) |->
    SelectSeq(surface[i].params, LAMBDA p : p.type # NoObject /\ canonicalReturnTypeKey(p.type) = k)])

sharedParam(k) == Len(Occurrences(k)) > 1

sharedName(defNames, k) == deriveName(defNames, k, ParamName(Occurrences(k)[1]))

paramType(defNames, p) ==
  IF p.type # NoObject /\ sharedParam(canonicalReturnTypeKey(p.type))
  THEN ByName(sharedName(defNames, canonicalReturnTypeKey(p.type))) ELSE AsIs(p.type)

inputDecls(defNames) ==
  LET keys == {canonicalReturnTypeKey(p.type) :
                 p \in {q \in UNION {Range(t.params) : t \in Tools} : q.type # NoObject}}
  IN {<<sharedName(defNames, k), Occurrences(k)[1].type>> : k \in {j \in keys : sharedParam(j)}}

-----------------------------------------------------------------------------
\* Returns

Returning == SelectSeq(surface, LAMBDA t : t.returns # NoObject)
Key(tool) == canonicalReturnTypeKey(tool.returns)

\* The first pass: a described type of an earlier tool is reused by name; a new one
\* is named when a comment has several lines, and inline, with its name kept,
\* otherwise.
Analyse(defNames) ==
  FoldLeft(LAMBDA acc, t :
    LET k == Key(t)
        name == IF k \in DOMAIN acc.keys THEN acc.keys[k] ELSE deriveName(defNames, k, ResultName(t))
        named == k \in DOMAIN acc.keys \/ t.returns.desc = "multi"
    IN IF ~hasDescriptions(t.returns) THEN acc
       ELSE [modes |-> (t.name :> IF named THEN "named" ELSE "inline") @@ acc.modes,
             keys |-> (k :> name) @@ acc.keys],
    [modes |-> <<>>, keys |-> <<>>], Returning)

canonicalUsage(k) == Cardinality({i \in 1 .. Len(Returning) : Key(Returning[i]) = k})

\* The second pass: an inline type of several tools is named after all.
promote(modes) ==
  [n \in DOMAIN modes |->
     IF modes[n] = "inline" /\ canonicalUsage(Key(CHOOSE t \in Tools : t.name = n)) > 1
     THEN "named" ELSE modes[n]]

returnType(analysis, t) ==
  IF t.name \in DOMAIN analysis.modes /\ promote(analysis.modes)[t.name] = "named"
  THEN ByName(analysis.keys[Key(t)]) ELSE AsIs(t.returns)

\* interfaceBlocks: one for each name, of the first tool that shows it, unless a line
\* has a type alias of the name (a definition with a comment of several lines is an
\* interface instead).
interfaceBlocks(analysis, inputs, refs) ==
  LET aliases == {d[1] : d \in inputs \cup {e \in refs : e[2].desc # "multi"}}
      Shown(j) == returnType(analysis, Returning[j])
  IN {<<Shown(i).name, Returning[i].returns>> :
        i \in {j \in 1 .. Len(Returning) :
                 /\ Shown(j).named /\ Shown(j).name \notin aliases
                 /\ \A h \in 1 .. j - 1 : Shown(h) # Shown(j)}}

-----------------------------------------------------------------------------

Init ==
  /\ surface \in Surfaces
  /\ shown = <<>>
  /\ declared = {}
  /\ done = FALSE

DeclarationSource ==
  /\ ~done
  /\ \E defNames \in collectDefinitionStructures :
       LET analysis == Analyse(defNames)
           inputs == inputDecls(defNames)
           refs == collectUniqueDeclarations
       IN /\ shown' = [i \in 1 .. Len(surface) |->
                         [returns |-> returnType(analysis, surface[i]),
                          params |-> [j \in 1 .. Len(surface[i].params) |->
                                        paramType(defNames, surface[i].params[j])]]]
          /\ declared' = inputs \cup refs \cup interfaceBlocks(analysis, inputs, refs)
  /\ done' = TRUE
  /\ UNCHANGED surface

Next == DeclarationSource

-----------------------------------------------------------------------------
\* Properties

\* Every name that definitions, methods or parameters give stands for one type.
OneMeaning ==
  LET given == UNION {Definitions(t) : t \in Tools}
               \cup {<<ResultName(t), t.returns>> : t \in Range(Returning)}
               \cup {<<ParamName(p), p.type>> : p \in UNION {Range(t.params) : t \in Tools}}
  IN \A a, b \in given : a[1] = b[1] => a[2] = b[2]

Faithful(type, s) == type.named => {d \in declared : d[1] = type.name} = {<<type.name, s>>}

\* A type that the declaration shows by name is declared, with the properties, types
\* and comments of the tool's own type and no others, when names have one meaning.
NamedTypesFaithful ==
  done /\ OneMeaning =>
    \A i \in 1 .. Len(surface) :
      /\ Faithful(shown[i].returns, surface[i].returns)
      /\ \A j \in 1 .. Len(surface[i].params) : Faithful(shown[i].params[j], surface[i].params[j].type)

=============================================================================
