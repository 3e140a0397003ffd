------------------------------- MODULE FlowGraph -------------------------------
(***************************************************************************)
(* What the TypeScript packages compute from the graph of a flow: its      *)
(* validation and metrics (validation.ts) and its layout (layouts.ts).     *)
(*                                                                         *)
(* A flow is two sequences: nodes (id, type, label, category, position,    *)
(* locked, and how many ports it has) and edges (id, ends, the number of   *)
(* the port at the source, whether it is the default and whether it has a  *)
(* condition).  Issues are a set of code and place: their order and their  *)
(* wording are for the reader.  Coordinates are what tells places apart.   *)
(***************************************************************************)
EXTENDS Integers, FiniteSets, Sequences, SequencesExt

Nodes(flow) == ToSet(flow.nodes)
Edges(flow) == ToSet(flow.edges)
Ids(flow)   == {n.id : n \in Nodes(flow)}
OfType(flow, type)   == {n \in Nodes(flow) : n.type = type}
Executable(flow)     == {n \in Nodes(flow) : n.type # "group"}
NodeOf(flow, id)     == SelectInSeq(flow.nodes, LAMBDA n : n.id = id)
Outgoing(flow, id)   == SelectSeq(flow.edges, LAMBDA e : e.source = id)
Targets(flow, id)    == LET out == Outgoing(flow, id) IN [i \in DOMAIN out |-> out[i].target]

-------------------------------------------------------------------------------
(* validation.ts                                                           *)

RECURSIVE Explore(_, _, _)
Explore(flow, queue, visited) ==
  IF queue = <<>> THEN visited
  ELSE IF Head(queue) \in visited THEN Explore(flow, Tail(queue), visited)
  ELSE Explore(flow, Tail(queue) \o Targets(flow, Head(queue)), visited \cup {Head(queue)})

reachableFrom(flow, starts) == Explore(flow, SetToSeq(starts), {})

Earlier(a, b) == a      \* mutant: the low link is not lowered

Least(a, b) == IF a < b THEN a ELSE b
Upon(id, value, f) == [x \in DOMAIN f \cup {id} |-> IF x = id THEN value ELSE f[x]]

\* The components of Tarjan.  t holds what the closure visit shares: the index and the low link of
\* each node seen, the stack and the components found.
RECURSIVE Visit(_, _, _)
Visit(flow, id, t) ==
  LET index  == Cardinality(DOMAIN t.indexes)
      opened == [t EXCEPT !.indexes = Upon(id, index, @), !.lowLinks = Upon(id, index, @), !.stack = Append(@, id)]
      Follow(s, target) ==
        IF target \notin DOMAIN s.indexes
        THEN LET r == Visit(flow, target, s) IN [r EXCEPT !.lowLinks[id] = Least(@, r.lowLinks[target])]
        ELSE IF target \in ToSet(s.stack) THEN [s EXCEPT !.lowLinks[id] = Least(@, s.indexes[target])] ELSE s
      seen == IF \E n \in Executable(flow) : n.id = id
              THEN FoldLeft(Follow, opened, Targets(flow, id)) ELSE opened
      root == SelectInSeq(seen.stack, LAMBDA x : x = id)
  IN  IF seen.lowLinks[id] = seen.indexes[id]
      THEN [seen EXCEPT !.components = Append(@, ToSet(SubSeq(seen.stack, root, Len(seen.stack)))),
                        !.stack = SubSeq(@, 1, root - 1)]
      ELSE seen

stronglyConnectedComponents(flow) ==
  LET ids == SelectSeq(flow.nodes, LAMBDA n : n.type # "group")
      Begin(t, n) == IF n.id \in DOMAIN t.indexes THEN t ELSE Visit(flow, n.id, t)
      none == [x \in {} |-> 0]
  IN  ToSet(FoldLeft(Begin, [indexes |-> none, lowLinks |-> none, stack |-> <<>>, components |-> <<>>], ids).components)

When(condition, issue) == IF condition THEN {issue} ELSE {}
Issue(code, at) == [code |-> code, at |-> at]
Flow == <<"flow">>        \* the place of an issue of the whole flow

Repeated(s) == {s[i].id : i \in {j \in DOMAIN s : \E k \in 1..(j - 1) : s[k].id = s[j].id}}

EdgeIssues(flow, e) ==
  LET s == NodeOf(flow, e.source)  source == flow.nodes[s]
      t == NodeOf(flow, e.target)  target == flow.nodes[t]
  IN  IF s = 0 \/ t = 0 THEN {Issue("edge.missing_node", e.id)}
      ELSE When("group" \in {source.type, target.type}, Issue("edge.group_connection", e.id))
           \cup When(e.port > source.outputs, Issue("edge.missing_source_port", e.id))
           \cup When(target.inputs = 0, Issue("edge.missing_target_port", e.id))

DecisionIssues(flow, d) ==
  LET outgoing == Outgoing(flow, d.id)
      defaults == SelectSeq(outgoing, LAMBDA e : e.isDefault)
  IN  When(Len(outgoing) < 2, Issue("decision.insufficient_paths", d.id))
      \cup When(Len(defaults) # 1, Issue("decision.default_path", d.id))
      \cup {Issue("decision.missing_condition", e.id) : e \in {x \in ToSet(outgoing) : ~x.isDefault /\ ~x.conditional}}

CountsInnerEdges(flow, component) == \E e \in Edges(flow) : e.source \in component     \* mutant

HasExit(flow, component) == \E e \in Edges(flow) : e.source \in component /\ e.target \notin component

CycleIssues(flow, component) ==
  When(Cardinality(component) > 1 \/ \E e \in Edges(flow) : {e.source, e.target} = component,
       Issue(IF HasExit(flow, component) THEN "flow.cycle" ELSE "flow.infinite_cycle",
             CHOOSE id \in component : TRUE))

Warnings == {"node.unreachable", "flow.cycle"}

validateFlow(flow) ==
  LET triggers  == {n.id : n \in OfType(flow, "trigger")}
      ends      == {n.id : n \in OfType(flow, "end")}
      reachable == reachableFrom(flow, triggers)
  IN  {Issue("node.duplicate_id", id) : id \in Repeated(flow.nodes)}
      \cup When(triggers = {}, Issue("flow.no_trigger", Flow))
      \cup When(ends = {}, Issue("flow.no_end", Flow))
      \cup {Issue("edge.duplicate_id", id) : id \in Repeated(flow.edges)}
      \cup UNION {EdgeIssues(flow, e) : e \in Edges(flow)}
      \cup {Issue("node.unreachable", n.id) : n \in {x \in Executable(flow) : x.id \notin reachable}}
      \cup When(triggers # {} /\ ends # {} /\ ends \cap reachable = {}, Issue("flow.no_reachable_end", Flow))
      \cup UNION {DecisionIssues(flow, d) : d \in OfType(flow, "decision")}
      \cup UNION {CycleIssues(flow, c) : c \in stronglyConnectedComponents(flow)}

Codes(flow)  == {i.code : i \in validateFlow(flow)}
Errors(flow) == Codes(flow) \ Warnings

flowMetrics(flow) ==
  LET triggers   == {n.id : n \in OfType(flow, "trigger")}
      executable == Len(SelectSeq(flow.nodes, LAMBDA n : n.type # "group"))
      reachable  == Cardinality(reachableFrom(flow, triggers))
      cycles     == Cardinality({i \in validateFlow(flow) : i.code \in {"flow.cycle", "flow.infinite_cycle"}})
      Most(a, b) == IF a > b THEN a ELSE b
  IN  [nodeCount |-> executable, edgeCount |-> Len(flow.edges), reachableCount |-> reachable,
       coveragePercent |-> IF executable = 0 THEN 0 ELSE (200 * reachable + executable) \div (2 * executable),
       complexity |-> Most(1, Len(flow.edges) - executable + Most(1, Cardinality(triggers)) + cycles)]

-------------------------------------------------------------------------------
(* layouts.ts                                                              *)

\* One turn of the loop takes the first of the queue; guard turns at most.
RECURSIVE Advance(_, _, _, _)
Advance(flow, queue, stages, guard) ==
  LET current == Head(queue)
      onward  == SelectSeq(Targets(flow, current.id), LAMBDA id : id # current.id)
      further == [i \in DOMAIN onward |-> [id |-> onward[i], stage |-> current.stage + 1]]
  IN  IF queue = <<>> \/ guard = 0 THEN [stages |-> stages, left |-> queue]
      ELSE IF current.id \in DOMAIN stages /\ stages[current.id] >= current.stage
           THEN Advance(flow, Tail(queue), stages, guard - 1)
           ELSE Advance(flow, Tail(queue) \o further, Upon(current.id, current.stage, stages), guard - 1)

OneTurnEach(flow) == Len(flow.nodes)      \* mutant

Turns(flow) == 4 * Len(flow.nodes)

Walked(flow) ==
  LET triggers == SelectSeq(flow.nodes, LAMBDA n : n.type = "trigger")
      start    == [i \in DOMAIN triggers |-> [id |-> triggers[i].id, stage |-> 0]]
  IN  Advance(flow, start, [x \in {} |-> 0], Turns(flow))
stageByNode(flow) == Walked(flow).stages
Stage(flow, id)   == IF id \in DOMAIN stageByNode(flow) THEN stageByNode(flow)[id] ELSE 0

\* The place of a node: what its coordinates are computed from.  Nodes of a stage are put in rows
\* in the order of their labels, for which any order will do.
Same(flow, key, i) == Cardinality({j \in 1..i : flow.nodes[j].type # "group" /\ key[j] = key[i]})

positionFor(flow, mode, path, i) ==
  LET n == flow.nodes[i]
      Latest(id) == CHOOSE k \in DOMAIN path : path[k] = id /\ \A m \in DOMAIN path : path[m] = id => m <= k
  IN  CASE mode = "force" \/ n.type = "group" -> n.position
        [] mode = "clusters"  -> <<n.category, Same(flow, [j \in 1..i |-> flow.nodes[j].category], i)>>
        [] mode = "execution" /\ path = <<>> -> <<"path", i>>
        [] mode = "execution" /\ path # <<>> /\ n.id \in ToSet(path) -> <<"path", Latest(n.id)>>
        [] mode = "execution" /\ path # <<>> /\ n.id \notin ToSet(path) -> <<"rest", i>>
        [] OTHER -> <<Stage(flow, n.id), Same(flow, [j \in 1..i |-> Stage(flow, flow.nodes[j].id)], i)>>

applyLayout(flow, mode, path) ==
  [flow EXCEPT !.nodes = [i \in DOMAIN @ |->
     IF @[i].locked THEN @[i] ELSE [@[i] EXCEPT !.position = positionFor(flow, mode, path, i)]]]
===============================================================================
