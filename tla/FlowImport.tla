------------------------------- MODULE FlowImport -------------------------------
(***************************************************************************)
(* A flow comes into the editor from a CSV, a text, a program or a mouse,  *)
(* is validated and laid out.  The material grows step by step; then it is *)
(* read, in one step except for the modules of a program, whose loop over  *)
(* a queue computes how deep each one lies.                                *)
(***************************************************************************)
EXTENDS CodeGraph

CONSTANTS
  Kinds,       \* subset of {"csv", "text", "modules", "functions", "journey", "drawn"}
  Files,       \* the files of the program: a sequence of [name, base, directory]
  Packages,    \* specifiers that are no file of the program
  Bodies,      \* the bodies of an exported function
  Canvas,      \* the nodes on which edges are drawn: sequences of types
  RowIds, RowTypes, RowTargets,     \* what a row of a CSV may hold
  MaxNodes, MaxEdges,               \* limiteNodos, limiteConexiones
  MaxRows, MaxLines, MaxImports, MaxFunctions, MaxCalls, MaxDrawn    \* bounds

VARIABLES
  kind,        \* where the flow comes from
  material,    \* what there is to read
  phase,       \* "writing", "placing" (the loop over the modules), "read" or "refused"
  queue, depth,    \* cola and profundidad of extraerModulos
  flow

vars == <<kind, material, phase, queue, depth, flow>>

Nothing == [x \in {} |-> 0]
Names   == {Files[i].name : i \in DOMAIN Files}
FunctionNames == <<"f", "g", "h">>

Blank(k) ==
  CASE k \in {"csv", "text", "functions", "drawn"} -> {<<>>}
    [] k = "modules" -> {[i \in DOMAIN Files |-> <<>>]}
    [] k = "journey" -> Bodies

Init ==
  /\ kind \in Kinds /\ material \in Blank(kind)
  /\ phase = "writing" /\ queue = <<>> /\ depth = Nothing
  /\ flow \in IF kind = "drawn"
              THEN {[nodes |-> [i \in DOMAIN types |-> NewNode(<<"n", i>>, types[i], types[i], <<"n", i>>)],
                     edges |-> <<>>] : types \in Canvas}
              ELSE {Refused}

Writing(k) == phase = "writing" /\ kind = k /\ UNCHANGED <<kind, phase, queue, depth>>
Size(s) == FoldLeft(LAMBDA n, x : n + Len(x), 0, s)

WriteRow ==
  /\ Writing("csv") /\ Len(material) < MaxRows /\ UNCHANGED flow
  /\ \E id \in RowIds, type \in RowTypes, targets \in RowTargets :
       material' = Append(material, [id |-> id, type |-> type, targets |-> targets])

WriteLine ==
  /\ Writing("text") /\ Len(material) < MaxLines /\ UNCHANGED flow
  /\ \E line \in {"plain", "question"} : material' = Append(material, line)

WriteImport ==
  /\ Writing("modules") /\ Size(material) < MaxImports /\ UNCHANGED flow
  /\ \E i \in DOMAIN Files, specifier \in Names \cup Packages :
       material' = [material EXCEPT ![i] = Append(@, specifier)]

WriteFunction ==
  /\ Writing("functions") /\ Len(material) < MaxFunctions /\ UNCHANGED flow
  /\ \E i \in 1..(Len(material) + 1), file \in {"in", "out"} :
       material' = Append(material, [name |-> FunctionNames[i], file |-> file, role |-> "process", calls |-> <<>>])

\* Of the bodies, the calls are written once all the functions are, so as not to write them twice.
WriteCall ==
  /\ Writing("functions") /\ Len(material) = MaxFunctions /\ UNCHANGED flow
  /\ Size([i \in DOMAIN material |-> material[i].calls]) < MaxCalls
  /\ \E i \in DOMAIN material, callee \in ToSet(FunctionNames) \cup {"external"} :
       material' = [material EXCEPT ![i].calls = Append(@, callee)]

\* The drawing of Editor.addEdge, without its guards on the types: a file may hold any edge.
Draw ==
  /\ Writing("drawn") /\ Len(flow.edges) < MaxDrawn /\ UNCHANGED material
  /\ \E s, t \in DOMAIN flow.nodes :
       /\ flow.edges # <<>> => LET e == Last(flow.edges)
                               IN  Len(flow.nodes) * s + t > Len(flow.nodes) * e.source[2] + e.target[2]
       /\ flow' = [flow EXCEPT !.edges = Append(@,
            [NewEdge(<<"e", Len(@) + 1>>, <<"n", s>>, <<"n", t>>) EXCEPT
               !.isDefault = flow.nodes[s].type = "decision" /\ Outgoing(flow, <<"n", s>>) = <<>>,
               !.conditional = TRUE])]

-------------------------------------------------------------------------------

Reading(k) == phase = "writing" /\ kind = k /\ UNCHANGED <<kind, material>>

\* analizar checks its limits before it emits anything.
Emit(f) ==
  /\ flow' = IF Len(f.nodes) > MaxNodes \/ Len(f.edges) > MaxEdges THEN Refused ELSE f
  /\ phase' = IF flow' = Refused THEN "refused" ELSE "read"

ReadCsv  == Reading("csv")  /\ Emit(parseFlowCsv(material)) /\ UNCHANGED <<queue, depth>>
ReadText == Reading("text") /\ Emit(localTextToFlow(material)) /\ UNCHANGED <<queue, depth>>
ReadDrawing == Reading("drawn") /\ Emit(flow) /\ UNCHANGED <<queue, depth>>
ReadFunctions ==
  /\ Reading("functions") /\ Emit(extraerFunciones(material, {"in"})) /\ UNCHANGED <<queue, depth>>
ReadJourney ==
  /\ Reading("journey") /\ Emit(extraerRecorridoDeNegocio(extraerRecorrido(material)))
  /\ UNCHANGED <<queue, depth>>

ReadModules ==
  LET roots == Roots(Files, References(Files, material))
  IN  /\ Reading("modules") /\ phase' = "placing"
      /\ queue' = [i \in DOMAIN roots |-> roots[i].name]
      /\ depth' = [name \in ToSet(queue') |-> 1]
      /\ UNCHANGED flow

FirstOnly(s, next, deeper) ==      \* mutant: a module keeps the first depth it was given
  IF next \in DOMAIN s.depth THEN s
  ELSE [depth |-> Upon(next, deeper, s.depth), queue |-> Append(s.queue, next)]

Deepen(s, next, deeper) ==
  IF next \in DOMAIN s.depth /\ s.depth[next] >= deeper THEN s
  ELSE [depth |-> Upon(next, deeper, s.depth), queue |-> Append(s.queue, next)]

\* A turn of the loop.  Cut short once a module lies deeper than there are modules: from there the
\* loop goes on for ever, as DepthIsLongestPath says.
Place ==
  LET current == Head(queue)
      On(s, next) == Deepen(s, next, s.depth[current] + 1)
      placed == FoldLeft(On, [depth |-> depth, queue |-> Tail(queue)],
                         Imported(References(Files, material), current))
  IN  /\ phase = "placing" /\ queue # <<>>
      /\ \A name \in DOMAIN depth : depth[name] <= Len(Files)
      /\ depth' = placed.depth /\ queue' = placed.queue
      /\ UNCHANGED <<kind, material, phase, flow>>

EmitModules ==
  /\ phase = "placing" /\ queue = <<>>
  /\ Emit(extraerModulos(Files, material, depth))
  /\ UNCHANGED <<kind, material, queue, depth>>

Next ==
  \/ WriteRow \/ WriteLine \/ WriteImport \/ WriteFunction \/ WriteCall \/ Draw
  \/ ReadCsv \/ ReadText \/ ReadDrawing \/ ReadFunctions \/ ReadJourney
  \/ ReadModules \/ Place \/ EmitModules

Spec == Init /\ [][Next]_vars

-------------------------------------------------------------------------------
(* Properties of the graph algorithms.                                     *)

Read == phase = "read"
Closed == "edge.missing_node" \notin Errors(flow) /\ Repeated(flow.nodes) = {}
Reaches(id) == reachableFrom(flow, {id})

\* The components of the recursive visit are the classes of nodes that reach each other, whatever
\* the order of nodes and edges (stronglyConnectedComponents).
ComponentsAreClasses ==
  Read => LET ids == {n.id : n \in Executable(flow)}
          IN  Closed /\ "edge.group_connection" \notin Errors(flow) =>
                stronglyConnectedComponents(flow) =
                  {{b \in ids : b \in Reaches(a) /\ a \in Reaches(b)} : a \in ids}

\* What the simulator may rely on in a flow without errors: from every node the run can leave the
\* cycles, there is a result within reach of a start, and each decision has one way to fall back on.
ValidFlowCanStop ==
  Read /\ Errors(flow) = {} =>
    /\ \A n \in Executable(flow) : \E id \in Reaches(n.id) : Outgoing(flow, id) = <<>>
    /\ \E e \in OfType(flow, "end") : \E t \in OfType(flow, "trigger") : e.id \in Reaches(t.id)
    /\ \A d \in OfType(flow, "decision") : Cardinality({e \in ToSet(Outgoing(flow, d.id)) : e.isDefault}) = 1
    /\ flowMetrics(flow).coveragePercent <= 100

Acyclic == \A n \in Executable(flow) :
             \A e \in ToSet(Outgoing(flow, n.id)) : e.target # n.id => n.id \notin Reaches(e.target)
\* The nodes at the end of a way of k edges from a start, and the longest such way.
Frontier(S) == {e.target : e \in {x \in Edges(flow) : x.source \in S /\ x.source # x.target}}
Longest(id) ==
  LET Extend(all, n) == Append(all, Frontier(Last(all)))
      ways == FoldLeft(Extend, <<{n.id : n \in OfType(flow, "trigger")}>>, flow.nodes)
  IN  CHOOSE k \in 0..Len(flow.nodes) :
        id \in ways[k + 1] /\ \A m \in (k + 1)..Len(flow.nodes) : id \notin ways[m + 1]

\* When no node is in a cycle, the layers of the layout are the longest ways from a start, so that
\* every connection goes forward; the limit of four turns a node is not met (stageByNode; six nodes
\* all joined to the later ones would meet it); and no two nodes are put in one place, whatever the mode (positionsForLayout).
LayersGoForward ==
  Read /\ Closed =>
    /\ Acyclic => /\ Walked(flow).left = <<>>
                  /\ \A id \in DOMAIN stageByNode(flow) : stageByNode(flow)[id] = Longest(id)
    /\ \A mode \in {"directional", "clusters", "execution"} :
         LET moved == applyLayout(flow, mode, <<>>).nodes
         IN  \A i, j \in DOMAIN moved :
               "group" \notin {moved[i].type, moved[j].type} /\ moved[i].position = moved[j].position => i = j

-------------------------------------------------------------------------------
(* Properties of the readers.                                              *)

\* What is read is whole: every edge joins two nodes of the flow at ports they have, edges have
\* identifiers of their own unless a program says the same thing again, and a decision with ways
\* out has one default (parseFlowCsv, extraerFunciones, extraerModulos, extraerRecorridoDeNegocio).
Said(e) == Cardinality({i \in DOMAIN flow.edges : <<flow.edges[i].source, flow.edges[i].target>> = <<e.source, e.target>>})
ReadFlowsAreWhole ==
  Read /\ kind # "drawn" =>
    /\ "edge.missing_node" \notin Errors(flow)
    /\ "edge.duplicate_id" \in Errors(flow) =>
         \E e \in Edges(flow) : Said(e) > CASE kind = "functions" -> 1 [] kind = "modules" -> 2 [] OTHER -> 9
    /\ kind # "csv" => Errors(flow) \cap {"edge.group_connection", "edge.missing_source_port", "edge.missing_target_port"} = {}
    /\ kind # "text" => \A i \in validateFlow(flow) :
         i.code = "decision.default_path" => Issue("decision.insufficient_paths", i.at) \in validateFlow(flow)

\* The loop over the modules gives each the length of the longest chain of imports that leads to it,
\* if no chain comes back; and such a program is a valid flow (extractors/modules.ts:15) unless one
\* file imports another three times.
Circular == \E f \in Names :
  LET Onward[k \in 0..Len(Files)] ==
        IF k = 0 THEN {f} ELSE UNION {ToSet(Imported(References(Files, material), g)) : g \in Onward[k - 1]}
  IN  \E k \in 1..Len(Files) : f \in Onward[k]
DepthIsLongestPath ==
  kind = "modules" /\ ~Circular =>
    /\ \A name \in DOMAIN depth : depth[name] <= Len(Files)
    /\ phase = "placing" /\ queue = <<>> =>
         \A r \in ToSet(References(Files, material)) : depth[r.to] > depth[r.from]
    /\ Read => Errors(flow) \subseteq {"edge.duplicate_id"}

\* Every step of a journey leads to an end, none comes back to itself, and the only thing a journey
\* lacks is the condition of its decisions (extraerRecorrido).
JourneyEnds ==
  Read /\ kind = "journey" =>
    /\ Errors(flow) \subseteq {"decision.missing_condition"}
    /\ \A n \in Nodes(flow) : \E e \in OfType(flow, "end") : e.id \in Reaches(n.id)
    /\ Acyclic

\* Whatever the material and the order in which it was written, what a reader makes of it is a flow.
ReadingIsSound == ReadFlowsAreWhole /\ DepthIsLongestPath /\ JourneyEnds
===============================================================================
