-------------------------------- MODULE FlowDiff --------------------------------
(***************************************************************************)
(* The semantic difference of two flows (semantic-diff.ts): what changed   *)
(* between two definitions, and whether the change is visual, behavioral   *)
(* or breaking.                                                            *)
(*                                                                         *)
(* A definition is [flow, layout, variables, nodes, edges]; each part maps *)
(* an id to a record of fields, the first two have one record.  A field    *)
(* that is absent has the value "absent".  Ports are pairs of id and label.*)
(* An array becomes a function or a set: the code compares by id.          *)
(***************************************************************************)
EXTENDS Integers, FiniteSets, SequencesExt

IMPACT_RANK == [none |-> 0, visual |-> 1, behavioral |-> 2, breaking |-> 3]

FLOW_IMPACT == [schemaVersion |-> "breaking", name |-> "visual", description |-> "visual", metadata |-> "visual"]

LAYOUT_IMPACT == [mode |-> "visual", clusterBy |-> "visual", camera |-> "visual"]

NODE_IMPACT ==
  [type |-> "breaking", label |-> "visual", description |-> "visual", inputs |-> "breaking", outputs |-> "breaking",
   activationMode |-> "behavioral", durationMs |-> "behavioral", configuration |-> "behavioral",
   position |-> "visual", locked |-> "visual", metadata |-> "visual"]

EDGE_IMPACT ==
  [source |-> "breaking", target |-> "breaking", sourcePort |-> "breaking", targetPort |-> "breaking",
   label |-> "visual", condition |-> "behavioral", isDefault |-> "behavioral", priority |-> "behavioral"]

VARIABLE_IMPACT == [type |-> "breaking", required |-> "breaking", default |-> "behavioral", description |-> "visual"]

\* The fields of the records of each part.
Fields ==
  [flow |-> DOMAIN FLOW_IMPACT, layout |-> DOMAIN LAYOUT_IMPACT, variables |-> DOMAIN VARIABLE_IMPACT,
   nodes |-> DOMAIN NODE_IMPACT, edges |-> DOMAIN EDGE_IMPACT]

IsItem(part, item) ==
  /\ item = [field \in Fields[part] |-> item[field]]
  /\ part = "variables" => item.required \in BOOLEAN

\* FlowDefinition: five parts, each with its records by their ids.
IsDefinition(def) ==
  /\ def = [part \in DOMAIN Fields |-> def[part]]
  /\ \A part \in DOMAIN Fields : /\ def[part] = [id \in DOMAIN def[part] |-> def[part][id]]
                                 /\ \A id \in DOMAIN def[part] : IsItem(part, def[part][id])
  /\ DOMAIN def.flow = {"flow"} /\ DOMAIN def.layout = {"layout"}

highestImpact(impacts) ==
  CHOOSE i \in impacts \cup {"visual"} : \A j \in impacts : IMPACT_RANK[j] <= IMPACT_RANK[i]

-------------------------------------------------------------------------------
\* A change names the part and the id: entity and id in the code.
Change(part, id, operation, impact) == [part |-> part, id |-> id, operation |-> operation, impact |-> impact]

\* The impacts of the fields that changed: changedFields, and the impact of the whole.
modifiedChange(part, id, before, after, impacts) ==
  Change(part, id, "modified", highestImpact({impacts[field] : field \in {f \in DOMAIN after : before[f] # after[f]}}))

\* added and removed give the impact of each id, impacts that of each field of an id.
diffByID(part, before, after, added, removed, impacts) ==
  {Change(part, id, "added", added[id]) : id \in DOMAIN after \ DOMAIN before}
  \cup {Change(part, id, "removed", removed[id]) : id \in DOMAIN before \ DOMAIN after}
  \cup {modifiedChange(part, id, before[id], after[id], impacts[id]) :
          id \in {i \in DOMAIN before \cap DOMAIN after : before[i] # after[i]}}

OnlyStricterCounts(before, after) == IF ~before /\ after THEN "breaking" ELSE "visual"      \* mutant

RequiredImpact(before, after) == IF ~before /\ after THEN "breaking" ELSE "behavioral"

VariableFieldImpact(field, before, after) ==
  IF field = "required" THEN RequiredImpact(before[field], after[field]) ELSE VARIABLE_IMPACT[field]

PortIds(ports) == {p[1] : p \in ports}

OnlyRemovalsCount(before, after) == IF PortIds(before) \subseteq PortIds(after) THEN "visual" ELSE "breaking"   \* mutant

portChangeImpact(before, after) ==
  IF ~(PortIds(before) \subseteq PortIds(after)) THEN "breaking"
  ELSE IF PortIds(before) # PortIds(after) THEN "behavioral" ELSE "visual"

nodeFieldImpact(field, before, after) ==
  CASE field \in {"inputs", "outputs"} -> portChangeImpact(before[field], after[field])
    [] field = "configuration" /\ "trigger" \in {before.type, after.type} -> "breaking"
    [] field = "configuration" /\ {before.type, after.type} = {"group"}   -> "visual"
    [] OTHER -> NODE_IMPACT[field]

AddedNode(n)   == IF n.type = "group" THEN "visual" ELSE "behavioral"
RemovedNode(n) == IF n.type = "group" THEN "visual" ELSE "breaking"

semanticDiff(changes) ==
  [changes |-> changes,
   hasChanges |-> changes # {},
   behaviorChanged |-> \E c \in changes : c.impact # "visual",
   highestImpact |-> IF changes = {} THEN "none" ELSE highestImpact({c.impact : c \in changes})]

diffFlowDefinitions(before, after) ==
  LET Never == <<>>      \* a definition always has its flow and its layout
      All(part, impact) == [id \in DOMAIN before[part] \cup DOMAIN after[part] |-> impact]
      Both(part) == DOMAIN before[part] \cap DOMAIN after[part]
  IN  semanticDiff(
        diffByID("flow", before.flow, after.flow, Never, Never, All("flow", FLOW_IMPACT))
        \cup diffByID("layout", before.layout, after.layout, Never, Never, All("layout", LAYOUT_IMPACT))
        \cup diffByID("variables", before.variables, after.variables,
                      [id \in DOMAIN after.variables |-> IF after.variables[id].required THEN "breaking" ELSE "behavioral"],
                      All("variables", "breaking"),
                      [id \in Both("variables") |-> [f \in DOMAIN VARIABLE_IMPACT |->
                         VariableFieldImpact(f, before.variables[id], after.variables[id])]])
        \cup diffByID("nodes", before.nodes, after.nodes,
                      [id \in DOMAIN after.nodes |-> AddedNode(after.nodes[id])],
                      [id \in DOMAIN before.nodes |-> RemovedNode(before.nodes[id])],
                      [id \in Both("nodes") |-> [f \in DOMAIN after.nodes[id] |->
                         nodeFieldImpact(f, before.nodes[id], after.nodes[id])]])
        \cup diffByID("edges", before.edges, after.edges, All("edges", "behavioral"), All("edges", "breaking"),
                      All("edges", EDGE_IMPACT)))

-------------------------------------------------------------------------------
\* The graph of a definition, as the validation (FlowGraph) takes it.  The nodes and the edges in any order; a port
\* that its node does not have is number 99 at the source, no port at all at the target.
AsGraph(def) ==
  LET ids  == SetToSeq(DOMAIN def.nodes)
      arcs == SetToSeq(DOMAIN def.edges)
      Has(id, ports, port) == id \in DOMAIN def.nodes => port \in PortIds(def.nodes[id][ports])
      Node(id) ==
        [id |-> id, type |-> def.nodes[id].type,
         outputs |-> Cardinality(def.nodes[id].outputs),
         inputs  |-> IF \E e \in DOMAIN def.edges : def.edges[e].target = id /\ ~Has(id, "inputs", def.edges[e].targetPort)
                     THEN 0 ELSE 1]
      Edge(id) ==
        LET e == def.edges[id]
        IN  [id |-> id, source |-> e.source, target |-> e.target, isDefault |-> e.isDefault,
             port |-> IF Has(e.source, "outputs", e.sourcePort) THEN 0 ELSE 99, conditional |-> e.condition # "absent"]
  IN  [nodes |-> [i \in DOMAIN ids |-> Node(ids[i])], edges |-> [i \in DOMAIN arcs |-> Edge(arcs[i])]]
===============================================================================
