---------------------------- MODULE FlowReviewProofs ----------------------------
(***************************************************************************)
(* Proofs about FlowReview and the difference it computes, for every       *)
(* validation, every definition and every command line.                    *)
(***************************************************************************)
EXTENDS FlowReview, TLAPS

-------------------------------------------------------------------------------
(* Impacts                                                                 *)

Impacts    == {"visual", "behavioral", "breaking"}
Thresholds == {"behavioral", "breaking"}

Below(impact, threshold) == IMPACT_RANK[impact] < IMPACT_RANK[threshold]

\* The ranks order the impacts.
LEMMA Ranks ==
  /\ IMPACT_RANK["visual"] = 1 /\ IMPACT_RANK["behavioral"] = 2 /\ IMPACT_RANK["breaking"] = 3
  /\ \A i \in Impacts : IMPACT_RANK[i] \in 1..3
BY DEF IMPACT_RANK, Impacts

\* The highest impact of a set is one of the set, or visual, and none of the set is above it.
LEMMA HighestImpact ==
  ASSUME NEW S, S \subseteq Impacts
  PROVE  /\ highestImpact(S) \in S \cup {"visual"}
         /\ \A j \in S : IMPACT_RANK[j] <= IMPACT_RANK[highestImpact(S)]
<1>1. \E i \in S \cup {"visual"} : \A j \in S : IMPACT_RANK[j] <= IMPACT_RANK[i]
  <2>1. CASE "breaking" \in S
    BY <2>1, Ranks DEF Impacts
  <2>2. CASE "breaking" \notin S /\ "behavioral" \in S
    BY <2>2, Ranks DEF Impacts
  <2>3. CASE "breaking" \notin S /\ "behavioral" \notin S
    BY <2>3, Ranks DEF Impacts
  <2>4. QED
    BY <2>1, <2>2, <2>3
<1>2. QED
  BY <1>1 DEF highestImpact

\* The highest impact stays below a threshold exactly when every impact does.
LEMMA HighestBelow ==
  ASSUME NEW S, S \subseteq Impacts, NEW t \in Thresholds
  PROVE  Below(highestImpact(S), t) <=> \A j \in S : Below(j, t)
<1>1. IMPACT_RANK["visual"] < IMPACT_RANK[t]
  BY Ranks DEF Thresholds
<1>2. /\ highestImpact(S) \in S \cup {"visual"}
      /\ \A j \in S : IMPACT_RANK[j] <= IMPACT_RANK[highestImpact(S)]
  BY HighestImpact
<1>3. /\ highestImpact(S) \in Impacts /\ IMPACT_RANK[highestImpact(S)] \in 1..3 /\ IMPACT_RANK[t] \in 1..3
      /\ \A j \in S : IMPACT_RANK[j] \in 1..3
  BY <1>2, Ranks DEF Impacts, Thresholds
<1>4. QED
  BY <1>1, <1>2, <1>3 DEF Below

-------------------------------------------------------------------------------
(* The difference of one part                                              *)

\* No item that was added, removed or changed has an impact that reaches the threshold.
QuietItems(fields, old, new, added, removed, impacts, t) ==
  /\ \A id \in DOMAIN new \ DOMAIN old : Below(added[id], t)
  /\ \A id \in DOMAIN old \ DOMAIN new : Below(removed[id], t)
  /\ \A id \in DOMAIN old \cap DOMAIN new : \A f \in fields :
       old[id][f] # new[id][f] => Below(impacts[id][f], t)

\* The impact of a modified item, seen from a threshold.
LEMMA ModifiedBelow ==
  ASSUME NEW part, NEW id, NEW fields, NEW old, NEW new, NEW impacts, NEW t \in Thresholds,
         DOMAIN new = fields, \A f \in fields : impacts[f] \in Impacts
  PROVE  Below(modifiedChange(part, id, old, new, impacts).impact, t)
         <=> \A f \in fields : old[f] # new[f] => Below(impacts[f], t)
<1> DEFINE S == {impacts[field] : field \in {f \in DOMAIN new : old[f] # new[f]}}
<1>1. S \subseteq Impacts
  OBVIOUS
<1>2. modifiedChange(part, id, old, new, impacts).impact = highestImpact(S)
  BY DEF modifiedChange, Change
<1>3. (\A j \in S : Below(j, t)) <=> \A f \in fields : old[f] # new[f] => Below(impacts[f], t)
  OBVIOUS
<1> HIDE DEF S
<1>4. QED
  BY <1>1, <1>2, <1>3, HighestBelow

\* The changes of a part stay below a threshold exactly when its items do.
LEMMA DiffBelow ==
  ASSUME NEW part, NEW fields, NEW old, NEW new, NEW added, NEW removed, NEW impacts, NEW t \in Thresholds,
         \A id \in DOMAIN old : old[id] = [f \in fields |-> old[id][f]],
         \A id \in DOMAIN new : new[id] = [f \in fields |-> new[id][f]],
         \A id \in DOMAIN old \cap DOMAIN new : \A f \in fields : impacts[id][f] \in Impacts
  PROVE  (\A c \in diffByID(part, old, new, added, removed, impacts) : Below(c.impact, t))
         <=> QuietItems(fields, old, new, added, removed, impacts, t)
<1> DEFINE A == {Change(part, id, "added", added[id]) : id \in DOMAIN new \ DOMAIN old}
           R == {Change(part, id, "removed", removed[id]) : id \in DOMAIN old \ DOMAIN new}
           Changed == {i \in DOMAIN old \cap DOMAIN new : old[i] # new[i]}
           M == {modifiedChange(part, id, old[id], new[id], impacts[id]) : id \in Changed}
<1>1. diffByID(part, old, new, added, removed, impacts) = A \cup R \cup M
  BY DEF diffByID
<1>2. (\A c \in A : Below(c.impact, t)) <=> \A id \in DOMAIN new \ DOMAIN old : Below(added[id], t)
  <2>1. \A id \in DOMAIN new \ DOMAIN old : Change(part, id, "added", added[id]).impact = added[id]
    BY DEF Change
  <2>2. QED
    BY <2>1
<1>3. (\A c \in R : Below(c.impact, t)) <=> \A id \in DOMAIN old \ DOMAIN new : Below(removed[id], t)
  <2>1. \A id \in DOMAIN old \ DOMAIN new : Change(part, id, "removed", removed[id]).impact = removed[id]
    BY DEF Change
  <2>2. QED
    BY <2>1
<1>4. ASSUME NEW id \in DOMAIN old \cap DOMAIN new
      PROVE  (\A f \in fields : old[id][f] # new[id][f] => Below(impacts[id][f], t))
             <=> (id \in Changed => Below(modifiedChange(part, id, old[id], new[id], impacts[id]).impact, t))
  <2>1. CASE id \in Changed
    <3>1. DOMAIN new[id] = fields /\ \A f \in fields : impacts[id][f] \in Impacts
      BY <1>4
    <3>2. Below(modifiedChange(part, id, old[id], new[id], impacts[id]).impact, t)
          <=> \A f \in fields : old[id][f] # new[id][f] => Below(impacts[id][f], t)
      BY <3>1, ModifiedBelow
    <3>3. QED
      BY <3>2, <2>1
  <2>2. CASE id \notin Changed
    BY <2>2, <1>4
  <2>3. QED
    BY <2>1, <2>2
<1>5. (\A c \in M : Below(c.impact, t))
      <=> \A id \in DOMAIN old \cap DOMAIN new : \A f \in fields :
            old[id][f] # new[id][f] => Below(impacts[id][f], t)
  <2>1. (\A c \in M : Below(c.impact, t))
        <=> \A id \in Changed : Below(modifiedChange(part, id, old[id], new[id], impacts[id]).impact, t)
    OBVIOUS
  <2>2. Changed \subseteq DOMAIN old \cap DOMAIN new
    OBVIOUS
  <2> HIDE DEF M, Changed
  <2>3. QED
    BY <1>4, <2>1, <2>2
<1> HIDE DEF A, R, M
<1>6. QED
  BY <1>1, <1>2, <1>3, <1>5 DEF QuietItems

\* The changes of a part have the impacts that their items have.
LEMMA DiffImpacts ==
  ASSUME NEW part, NEW fields, NEW old, NEW new, NEW added, NEW removed, NEW impacts,
         \A id \in DOMAIN new : new[id] = [f \in fields |-> new[id][f]],
         \A id \in DOMAIN new \ DOMAIN old : added[id] \in Impacts,
         \A id \in DOMAIN old \ DOMAIN new : removed[id] \in Impacts,
         \A id \in DOMAIN old \cap DOMAIN new : \A f \in fields : impacts[id][f] \in Impacts
  PROVE  \A c \in diffByID(part, old, new, added, removed, impacts) : c.impact \in Impacts
<1>1. ASSUME NEW id \in DOMAIN old \cap DOMAIN new
      PROVE  modifiedChange(part, id, old[id], new[id], impacts[id]).impact \in Impacts
  <2> DEFINE S == {impacts[id][field] : field \in {f \in DOMAIN new[id] : old[id][f] # new[id][f]}}
  <2>1. S \subseteq Impacts
    BY <1>1
  <2>2. modifiedChange(part, id, old[id], new[id], impacts[id]).impact = highestImpact(S)
    BY DEF modifiedChange, Change
  <2> HIDE DEF S
  <2>3. QED
    BY <2>1, <2>2, HighestImpact DEF Impacts
<1>2. \A id : /\ Change(part, id, "added", added[id]).impact = added[id]
              /\ Change(part, id, "removed", removed[id]).impact = removed[id]
  BY DEF Change
<1>3. QED
  BY <1>1, <1>2 DEF diffByID

\* A part has no changes exactly when it is the same.
LEMMA DiffEmpty ==
  ASSUME NEW part, NEW old, NEW new, NEW added, NEW removed, NEW impacts,
         old = [id \in DOMAIN old |-> old[id]], new = [id \in DOMAIN new |-> new[id]]
  PROVE  diffByID(part, old, new, added, removed, impacts) = {} <=> old = new
<1>1. diffByID(part, old, new, added, removed, impacts) = {}
      <=> /\ DOMAIN new \ DOMAIN old = {} /\ DOMAIN old \ DOMAIN new = {}
          /\ {i \in DOMAIN old \cap DOMAIN new : old[i] # new[i]} = {}
  BY DEF diffByID
<1>2. CASE old = new
  BY <1>1, <1>2
<1>3. ASSUME diffByID(part, old, new, added, removed, impacts) = {} PROVE old = new
  <2>1. DOMAIN old = DOMAIN new /\ \A i \in DOMAIN old : old[i] = new[i]
    BY <1>1, <1>3
  <2>2. QED
    BY <2>1
<1>4. QED
  BY <1>2, <1>3
-------------------------------------------------------------------------------
(* The difference of two definitions                                       *)

\* The impacts that diffFlowDefinitions gives, each in one place.
AddedImpact(part, item) ==
  CASE part = "variables" -> IF item.required THEN "breaking" ELSE "behavioral"
    [] part = "nodes" -> AddedNode(item)
    [] OTHER -> "behavioral"

RemovedImpact(part, item) == IF part = "nodes" THEN RemovedNode(item) ELSE "breaking"

FieldImpact(part, field, old, new) ==
  CASE part = "flow"      -> FLOW_IMPACT[field]
    [] part = "layout"    -> LAYOUT_IMPACT[field]
    [] part = "variables" -> VariableFieldImpact(field, old, new)
    [] part = "nodes"     -> nodeFieldImpact(field, old, new)
    [] part = "edges"     -> EDGE_IMPACT[field]

\* Nothing between two definitions reaches the threshold.
QuietPart(part, old, new, t) ==
  /\ \A id \in DOMAIN new[part] \ DOMAIN old[part] : Below(AddedImpact(part, new[part][id]), t)
  /\ \A id \in DOMAIN old[part] \ DOMAIN new[part] : Below(RemovedImpact(part, old[part][id]), t)
  /\ \A id \in DOMAIN old[part] \cap DOMAIN new[part] : \A f \in Fields[part] :
       old[part][id][f] # new[part][id][f] => Below(FieldImpact(part, f, old[part][id], new[part][id]), t)

Quiet(old, new, t) == \A part \in DOMAIN Fields : QuietPart(part, old, new, t)

\* A set of changes has impacts, and they stay below the threshold exactly when it is quiet.
Measured(changes, quiet, t) ==
  /\ \A c \in changes : c.impact \in Impacts
  /\ (\A c \in changes : Below(c.impact, t)) <=> quiet

\* The parts and their fields.
LEMMA PartsAndFields ==
  /\ DOMAIN Fields = {"flow", "layout", "variables", "nodes", "edges"}
  /\ Fields["flow"] = {"schemaVersion", "name", "description", "metadata"}
  /\ Fields["layout"] = {"mode", "clusterBy", "camera"}
  /\ Fields["variables"] = {"type", "required", "default", "description"}
  /\ Fields["nodes"] = {"type", "label", "description", "inputs", "outputs", "activationMode", "durationMs",
                        "configuration", "position", "locked", "metadata"}
  /\ Fields["edges"] = {"source", "target", "sourcePort", "targetPort", "label", "condition", "isDefault", "priority"}
BY DEF Fields, FLOW_IMPACT, LAYOUT_IMPACT, VARIABLE_IMPACT, NODE_IMPACT, EDGE_IMPACT

\* Every field has one of the impacts.
LEMMA FieldImpactType ==
  ASSUME NEW part \in DOMAIN Fields, NEW f \in Fields[part], NEW old, NEW new
  PROVE  FieldImpact(part, f, old, new) \in Impacts
<1>1. CASE part = "flow"
  BY <1>1, PartsAndFields DEF FieldImpact, FLOW_IMPACT, Impacts
<1>2. CASE part = "layout"
  BY <1>2, PartsAndFields DEF FieldImpact, LAYOUT_IMPACT, Impacts
<1>3. CASE part = "variables"
  BY <1>3, PartsAndFields DEF FieldImpact, VariableFieldImpact, RequiredImpact, VARIABLE_IMPACT, Impacts
<1>4. CASE part = "nodes"
  <2>1. nodeFieldImpact(f, old, new) \in Impacts
    BY <1>4, PartsAndFields DEF nodeFieldImpact, portChangeImpact, NODE_IMPACT, Impacts
  <2>2. QED
    BY <1>4, <2>1 DEF FieldImpact
<1>5. CASE part = "edges"
  BY <1>5, PartsAndFields DEF FieldImpact, EDGE_IMPACT, Impacts
<1>6. QED
  BY <1>1, <1>2, <1>3, <1>4, <1>5, PartsAndFields

\* The changes of a part, when the impacts are those of the part.
LEMMA PartBelow ==
  ASSUME NEW part \in DOMAIN Fields, NEW d, NEW e, IsDefinition(d), IsDefinition(e), NEW t \in Thresholds,
         NEW added, NEW removed, NEW impacts,
         \A id \in DOMAIN e[part] \ DOMAIN d[part] : added[id] = AddedImpact(part, e[part][id]),
         \A id \in DOMAIN d[part] \ DOMAIN e[part] : removed[id] = RemovedImpact(part, d[part][id]),
         \A id \in DOMAIN d[part] \cap DOMAIN e[part] : \A f \in Fields[part] :
           impacts[id][f] = FieldImpact(part, f, d[part][id], e[part][id])
  PROVE  Measured(diffByID(part, d[part], e[part], added, removed, impacts), QuietPart(part, d, e, t), t)
<1> DEFINE old == d[part]
           new == e[part]
           fields == Fields[part]
<1>1. /\ \A id \in DOMAIN old : old[id] = [f \in fields |-> old[id][f]]
      /\ \A id \in DOMAIN new : new[id] = [f \in fields |-> new[id][f]]
  BY DEF IsDefinition, IsItem
<1>2. \A id \in DOMAIN old \cap DOMAIN new : \A f \in fields : impacts[id][f] \in Impacts
  BY FieldImpactType
<1>3. QuietItems(fields, old, new, added, removed, impacts, t) <=> QuietPart(part, d, e, t)
  BY DEF QuietItems, QuietPart
<1> HIDE DEF old, new, fields
<1>4. (\A c \in diffByID(part, old, new, added, removed, impacts) : Below(c.impact, t))
      <=> QuietItems(fields, old, new, added, removed, impacts, t)
  BY <1>1, <1>2, DiffBelow
<1>5. /\ \A id \in DOMAIN new \ DOMAIN old : added[id] \in Impacts
      /\ \A id \in DOMAIN old \ DOMAIN new : removed[id] \in Impacts
  BY DEF old, new, AddedImpact, AddedNode, RemovedImpact, RemovedNode, Impacts
<1>6. \A c \in diffByID(part, old, new, added, removed, impacts) : c.impact \in Impacts
  BY <1>1, <1>2, <1>5, DiffImpacts
<1>7. QED
  BY <1>3, <1>4, <1>6 DEF old, new, Measured
\* The changes between two definitions stay below a threshold exactly when nothing reaches it.
LEMMA ChangesBelow ==
  ASSUME NEW d, NEW e, IsDefinition(d), IsDefinition(e), NEW t \in Thresholds
  PROVE  Measured(diffFlowDefinitions(d, e).changes, Quiet(d, e, t), t)
<1> DEFINE All(part, impact) == [id \in DOMAIN d[part] \cup DOMAIN e[part] |-> impact]
           Both(part) == DOMAIN d[part] \cap DOMAIN e[part]
           F == diffByID("flow", d["flow"], e["flow"], <<>>, <<>>, All("flow", FLOW_IMPACT))
           L == diffByID("layout", d["layout"], e["layout"], <<>>, <<>>, All("layout", LAYOUT_IMPACT))
           addedVariables == [id \in DOMAIN e["variables"] |-> IF e["variables"][id].required THEN "breaking" ELSE "behavioral"]
           variableImpacts == [id \in Both("variables") |-> [f \in DOMAIN VARIABLE_IMPACT |->
                                 VariableFieldImpact(f, d["variables"][id], e["variables"][id])]]
           V == diffByID("variables", d["variables"], e["variables"], addedVariables, All("variables", "breaking"), variableImpacts)
           addedNodes   == [id \in DOMAIN e["nodes"] |-> AddedNode(e["nodes"][id])]
           removedNodes == [id \in DOMAIN d["nodes"] |-> RemovedNode(d["nodes"][id])]
           nodeImpacts == [id \in Both("nodes") |-> [f \in DOMAIN e["nodes"][id] |->
                             nodeFieldImpact(f, d["nodes"][id], e["nodes"][id])]]
           N == diffByID("nodes", d["nodes"], e["nodes"], addedNodes, removedNodes, nodeImpacts)
           E == diffByID("edges", d["edges"], e["edges"], All("edges", "behavioral"), All("edges", "breaking"),
                         All("edges", EDGE_IMPACT))
<1>1. diffFlowDefinitions(d, e).changes = F \cup L \cup V \cup N \cup E
  BY DEF diffFlowDefinitions, semanticDiff
<1>2. Measured(F, QuietPart("flow", d, e, t), t)
  <2>1. "flow" \in DOMAIN Fields /\ DOMAIN d["flow"] = {"flow"} /\ DOMAIN e["flow"] = {"flow"}
    BY PartsAndFields DEF IsDefinition
  <2>2. \A id \in DOMAIN d["flow"] \cap DOMAIN e["flow"] : \A f \in Fields["flow"] :
          All("flow", FLOW_IMPACT)[id][f] = FieldImpact("flow", f, d["flow"][id], e["flow"][id])
    BY DEF FieldImpact
  <2> HIDE DEF All
  <2>3. QED
    BY <2>1, <2>2, PartBelow
<1>3. Measured(L, QuietPart("layout", d, e, t), t)
  <2>1. "layout" \in DOMAIN Fields /\ DOMAIN d["layout"] = {"layout"} /\ DOMAIN e["layout"] = {"layout"}
    BY PartsAndFields DEF IsDefinition
  <2>2. \A id \in DOMAIN d["layout"] \cap DOMAIN e["layout"] : \A f \in Fields["layout"] :
          All("layout", LAYOUT_IMPACT)[id][f] = FieldImpact("layout", f, d["layout"][id], e["layout"][id])
    BY DEF FieldImpact
  <2> HIDE DEF All
  <2>3. QED
    BY <2>1, <2>2, PartBelow
<1>4. Measured(V, QuietPart("variables", d, e, t), t)
  <2>1. "variables" \in DOMAIN Fields /\ Fields["variables"] = DOMAIN VARIABLE_IMPACT
    BY PartsAndFields DEF Fields
  <2>2. \A id \in DOMAIN e["variables"] \ DOMAIN d["variables"] :
          addedVariables[id] = AddedImpact("variables", e["variables"][id])
    BY DEF AddedImpact
  <2>3. \A id \in DOMAIN d["variables"] \ DOMAIN e["variables"] :
          All("variables", "breaking")[id] = RemovedImpact("variables", d["variables"][id])
    BY DEF RemovedImpact
  <2>4. \A id \in DOMAIN d["variables"] \cap DOMAIN e["variables"] : \A f \in Fields["variables"] :
          variableImpacts[id][f] = FieldImpact("variables", f, d["variables"][id], e["variables"][id])
    BY <2>1 DEF FieldImpact
  <2> HIDE DEF All, addedVariables, variableImpacts
  <2>5. QED
    BY <2>1, <2>2, <2>3, <2>4, PartBelow
<1>5. Measured(N, QuietPart("nodes", d, e, t), t)
  <2>1. "nodes" \in DOMAIN Fields /\ \A id \in DOMAIN e["nodes"] : DOMAIN e["nodes"][id] = Fields["nodes"]
    BY PartsAndFields DEF IsDefinition, IsItem
  <2>2. \A id \in DOMAIN e["nodes"] \ DOMAIN d["nodes"] : addedNodes[id] = AddedImpact("nodes", e["nodes"][id])
    BY DEF AddedImpact
  <2>3. \A id \in DOMAIN d["nodes"] \ DOMAIN e["nodes"] : removedNodes[id] = RemovedImpact("nodes", d["nodes"][id])
    BY DEF RemovedImpact
  <2>4. \A id \in DOMAIN d["nodes"] \cap DOMAIN e["nodes"] : \A f \in Fields["nodes"] :
          nodeImpacts[id][f] = FieldImpact("nodes", f, d["nodes"][id], e["nodes"][id])
    BY <2>1 DEF FieldImpact
  <2> HIDE DEF addedNodes, removedNodes, nodeImpacts
  <2>5. QED
    BY <2>1, <2>2, <2>3, <2>4, PartBelow
<1>6. Measured(E, QuietPart("edges", d, e, t), t)
  <2>1. "edges" \in DOMAIN Fields
    BY PartsAndFields
  <2>2. \A id \in DOMAIN e["edges"] \ DOMAIN d["edges"] :
          All("edges", "behavioral")[id] = AddedImpact("edges", e["edges"][id])
    BY DEF AddedImpact
  <2>3. \A id \in DOMAIN d["edges"] \ DOMAIN e["edges"] :
          All("edges", "breaking")[id] = RemovedImpact("edges", d["edges"][id])
    BY DEF RemovedImpact
  <2>4. \A id \in DOMAIN d["edges"] \cap DOMAIN e["edges"] : \A f \in Fields["edges"] :
          All("edges", EDGE_IMPACT)[id][f] = FieldImpact("edges", f, d["edges"][id], e["edges"][id])
    BY DEF FieldImpact
  <2> HIDE DEF All
  <2>5. QED
    BY <2>1, <2>2, <2>3, <2>4, PartBelow
<1> HIDE DEF F, L, V, N, E
<1>7. Quiet(d, e, t) <=> /\ QuietPart("flow", d, e, t) /\ QuietPart("layout", d, e, t) /\ QuietPart("variables", d, e, t)
                         /\ QuietPart("nodes", d, e, t) /\ QuietPart("edges", d, e, t)
  BY PartsAndFields DEF Quiet
<1>8. QED
  BY <1>1, <1>2, <1>3, <1>4, <1>5, <1>6, <1>7 DEF Measured
\* The difference reports a change of behaviour exactly when something reaches "behavioral".
LEMMA BehaviorChanged ==
  ASSUME NEW d, NEW e, IsDefinition(d), IsDefinition(e)
  PROVE  diffFlowDefinitions(d, e).behaviorChanged = ~Quiet(d, e, "behavioral")
<1>1. Measured(diffFlowDefinitions(d, e).changes, Quiet(d, e, "behavioral"), "behavioral")
  BY ChangesBelow DEF Thresholds
<1>2. diffFlowDefinitions(d, e).behaviorChanged = \E c \in diffFlowDefinitions(d, e).changes : c.impact # "visual"
  BY DEF diffFlowDefinitions, semanticDiff
<1>3. \A i \in Impacts : Below(i, "behavioral") <=> i = "visual"
  BY Ranks DEF Below, Impacts
<1>4. QED
  BY <1>1, <1>2, <1>3 DEF Measured

\* It reports changes exactly when the definitions differ.
LEMMA HasChanges ==
  ASSUME NEW d, NEW e, IsDefinition(d), IsDefinition(e)
  PROVE  diffFlowDefinitions(d, e).hasChanges = (d # e)
<1>1. \A part \in DOMAIN Fields :
        /\ d[part] = [id \in DOMAIN d[part] |-> d[part][id]]
        /\ e[part] = [id \in DOMAIN e[part] |-> e[part][id]]
  BY DEF IsDefinition
<1>2. ASSUME NEW part \in DOMAIN Fields, NEW added, NEW removed, NEW impacts
      PROVE  diffByID(part, d[part], e[part], added, removed, impacts) = {} <=> d[part] = e[part]
  <2> DEFINE old == d[part]
             new == e[part]
  <2>1. old = [id \in DOMAIN old |-> old[id]] /\ new = [id \in DOMAIN new |-> new[id]]
    BY <1>1, <1>2
  <2> HIDE DEF old, new
  <2>2. diffByID(part, old, new, added, removed, impacts) = {} <=> old = new
    BY <2>1, DiffEmpty
  <2>3. QED
    BY <2>2 DEF old, new
<1>3. diffFlowDefinitions(d, e).changes = {} <=> \A part \in DOMAIN Fields : d[part] = e[part]
  <2> DEFINE All(part, impact) == [id \in DOMAIN d[part] \cup DOMAIN e[part] |-> impact]
             Both(part) == DOMAIN d[part] \cap DOMAIN e[part]
             F == diffByID("flow", d["flow"], e["flow"], <<>>, <<>>, All("flow", FLOW_IMPACT))
             L == diffByID("layout", d["layout"], e["layout"], <<>>, <<>>, All("layout", LAYOUT_IMPACT))
             addedVariables == [id \in DOMAIN e["variables"] |->
                                  IF e["variables"][id].required THEN "breaking" ELSE "behavioral"]
             variableImpacts == [id \in Both("variables") |-> [f \in DOMAIN VARIABLE_IMPACT |->
                                   VariableFieldImpact(f, d["variables"][id], e["variables"][id])]]
             V == diffByID("variables", d["variables"], e["variables"], addedVariables, All("variables", "breaking"),
                           variableImpacts)
             addedNodes   == [id \in DOMAIN e["nodes"] |-> AddedNode(e["nodes"][id])]
             removedNodes == [id \in DOMAIN d["nodes"] |-> RemovedNode(d["nodes"][id])]
             nodeImpacts  == [id \in Both("nodes") |-> [f \in DOMAIN e["nodes"][id] |->
                                nodeFieldImpact(f, d["nodes"][id], e["nodes"][id])]]
             N == diffByID("nodes", d["nodes"], e["nodes"], addedNodes, removedNodes, nodeImpacts)
             E == diffByID("edges", d["edges"], e["edges"], All("edges", "behavioral"), All("edges", "breaking"),
                           All("edges", EDGE_IMPACT))
  <2>1. diffFlowDefinitions(d, e).changes = F \cup L \cup V \cup N \cup E
    BY DEF diffFlowDefinitions, semanticDiff
  <2> HIDE DEF All, addedVariables, variableImpacts, addedNodes, removedNodes, nodeImpacts
  <2>2. F = {} <=> d["flow"] = e["flow"]
    BY <1>2, PartsAndFields
  <2>3. L = {} <=> d["layout"] = e["layout"]
    BY <1>2, PartsAndFields
  <2>4. V = {} <=> d["variables"] = e["variables"]
    BY <1>2, PartsAndFields
  <2>5. N = {} <=> d["nodes"] = e["nodes"]
    BY <1>2, PartsAndFields
  <2>6. E = {} <=> d["edges"] = e["edges"]
    BY <1>2, PartsAndFields
  <2> HIDE DEF F, L, V, N, E
  <2>7. QED
    BY <2>1, <2>2, <2>3, <2>4, <2>5, <2>6, PartsAndFields
<1>4. (\A part \in DOMAIN Fields : d[part] = e[part]) <=> d = e
  BY DEF IsDefinition
<1>5. diffFlowDefinitions(d, e).hasChanges = (diffFlowDefinitions(d, e).changes # {})
  BY DEF diffFlowDefinitions, semanticDiff
<1>6. QED
  BY <1>3, <1>4, <1>5

\* What reaches "behavioral" one way reaches it the other way.
LEMMA QuietIsSymmetric ==
  ASSUME NEW d, NEW e, Quiet(d, e, "behavioral")
  PROVE  Quiet(e, d, "behavioral")
<1>1. \A i \in Impacts : Below(i, "behavioral") <=> i = "visual"
  BY Ranks DEF Below, Impacts
<1>2. ASSUME NEW part \in DOMAIN Fields, NEW x
      PROVE  Below(AddedImpact(part, x), "behavioral") <=> Below(RemovedImpact(part, x), "behavioral")
  BY <1>1, <1>2 DEF AddedImpact, RemovedImpact, AddedNode, RemovedNode, Impacts
<1>3. ASSUME NEW part \in DOMAIN Fields, NEW f \in Fields[part], NEW x, NEW y
      PROVE  Below(FieldImpact(part, f, x, y), "behavioral") <=> Below(FieldImpact(part, f, y, x), "behavioral")
  <2>1. CASE part = "variables"
    BY <2>1, <1>1, <1>3, PartsAndFields DEF FieldImpact, VariableFieldImpact, RequiredImpact, VARIABLE_IMPACT, Impacts
  <2>2. CASE part = "nodes"
    <3>1. nodeFieldImpact(f, x, y) = "visual" <=> nodeFieldImpact(f, y, x) = "visual"
      BY <2>2, <1>3, PartsAndFields DEF nodeFieldImpact, portChangeImpact, NODE_IMPACT
    <3>2. FieldImpact(part, f, x, y) \in Impacts /\ FieldImpact(part, f, y, x) \in Impacts
      BY FieldImpactType
    <3>3. FieldImpact(part, f, x, y) = nodeFieldImpact(f, x, y) /\ FieldImpact(part, f, y, x) = nodeFieldImpact(f, y, x)
      BY <2>2 DEF FieldImpact
    <3>4. QED
      BY <3>1, <3>2, <3>3, <1>1
  <2>3. CASE part \in {"flow", "layout", "edges"}
    BY <2>3 DEF FieldImpact
  <2>4. QED
    BY <2>1, <2>2, <2>3, PartsAndFields
<1>4. ASSUME NEW part \in DOMAIN Fields PROVE QuietPart(part, e, d, "behavioral")
  <2>1. QuietPart(part, d, e, "behavioral")
    BY DEF Quiet
  <2>2. /\ \A id \in DOMAIN d[part] \ DOMAIN e[part] : Below(AddedImpact(part, d[part][id]), "behavioral")
        /\ \A id \in DOMAIN e[part] \ DOMAIN d[part] : Below(RemovedImpact(part, e[part][id]), "behavioral")
    BY <2>1, <1>2 DEF QuietPart
  <2>3. \A id \in DOMAIN e[part] \cap DOMAIN d[part] : \A f \in Fields[part] :
          e[part][id][f] # d[part][id][f] => Below(FieldImpact(part, f, e[part][id], d[part][id]), "behavioral")
    BY <2>1, <1>3 DEF QuietPart
  <2>4. QED
    BY <2>2, <2>3 DEF QuietPart
<1>5. QED
  BY <1>4 DEF Quiet

\* What stays below "behavioral" stays below "breaking".
LEMMA QuieterIsQuiet ==
  ASSUME NEW d, NEW e, IsDefinition(d), IsDefinition(e), Quiet(d, e, "behavioral")
  PROVE  Quiet(d, e, "breaking")
<1>1. /\ Measured(diffFlowDefinitions(d, e).changes, Quiet(d, e, "behavioral"), "behavioral")
      /\ Measured(diffFlowDefinitions(d, e).changes, Quiet(d, e, "breaking"), "breaking")
  BY ChangesBelow DEF Thresholds
<1>2. \A i \in Impacts : Below(i, "behavioral") => Below(i, "breaking")
  BY Ranks DEF Below, Impacts
<1>3. QED
  BY <1>1, <1>2 DEF Measured
-------------------------------------------------------------------------------
(* What a quiet difference leaves as it is                                 *)

\* The impacts of the fields of a node, one by one.
LEMMA NodeImpacts ==
  ASSUME NEW x, NEW y
  PROVE  /\ FieldImpact("nodes", "type", x, y) = "breaking"
         /\ FieldImpact("nodes", "activationMode", x, y) = "behavioral"
         /\ FieldImpact("nodes", "durationMs", x, y) = "behavioral"
         /\ \A side \in {"inputs", "outputs"} : FieldImpact("nodes", side, x, y) = portChangeImpact(x[side], y[side])
         /\ x.type = "trigger" => FieldImpact("nodes", "configuration", x, y) = "breaking"
         /\ x.type # "group" => FieldImpact("nodes", "configuration", x, y) \in Thresholds
<1>1. \A f : FieldImpact("nodes", f, x, y) = nodeFieldImpact(f, x, y)
  BY DEF FieldImpact
<1>2. /\ nodeFieldImpact("type", x, y) = "breaking"
      /\ nodeFieldImpact("activationMode", x, y) = "behavioral"
      /\ nodeFieldImpact("durationMs", x, y) = "behavioral"
      /\ nodeFieldImpact("inputs", x, y) = portChangeImpact(x["inputs"], y["inputs"])
      /\ nodeFieldImpact("outputs", x, y) = portChangeImpact(x["outputs"], y["outputs"])
  BY DEF nodeFieldImpact, NODE_IMPACT
<1>3. /\ x.type = "trigger" => nodeFieldImpact("configuration", x, y) = "breaking"
      /\ x.type # "group" => nodeFieldImpact("configuration", x, y) \in Thresholds
  BY DEF nodeFieldImpact, NODE_IMPACT, Thresholds
<1>4. QED
  BY <1>1, <1>2, <1>3

\* The ports of a node between which the difference sees no more than the threshold allows.
LEMMA PortsBelow ==
  ASSUME NEW p, NEW q
  PROVE  /\ Below(portChangeImpact(p, q), "behavioral") => PortIds(p) = PortIds(q)
         /\ Below(portChangeImpact(p, q), "breaking") => PortIds(p) \subseteq PortIds(q)
BY Ranks DEF portChangeImpact, Below

\* The impacts that stay below a threshold.
LEMMA BelowThresholds ==
  /\ ~Below("behavioral", "behavioral") /\ ~Below("breaking", "behavioral") /\ ~Below("breaking", "breaking")
  /\ \A i \in Thresholds : ~Below(i, "behavioral")
BY Ranks DEF Below, Thresholds

\* Without a change of behaviour the engine finds every node it executes as it was.
LEMMA QuietNode ==
  ASSUME NEW d, NEW e, IsDefinition(d), IsDefinition(e), Quiet(d, e, "behavioral"),
         NEW n \in DOMAIN d.nodes, d.nodes[n].type # "group"
  PROVE  /\ n \in DOMAIN e.nodes
         /\ \A f \in {"type", "activationMode", "durationMs", "configuration"} : e.nodes[n][f] = d.nodes[n][f]
         /\ \A side \in {"inputs", "outputs"} : PortIds(d.nodes[n][side]) = PortIds(e.nodes[n][side])
<1>1. QuietPart("nodes", d, e, "behavioral")
  BY PartsAndFields DEF Quiet
<1>2. n \in DOMAIN e.nodes
  <2>1. RemovedImpact("nodes", d["nodes"][n]) = "breaking"
    BY DEF RemovedImpact, RemovedNode
  <2>2. QED
    BY <1>1, <2>1, BelowThresholds DEF QuietPart
<1>3. \A f \in Fields["nodes"] : d["nodes"][n][f] # e["nodes"][n][f]
                                 => Below(FieldImpact("nodes", f, d["nodes"][n], e["nodes"][n]), "behavioral")
  BY <1>1, <1>2 DEF QuietPart
<1>4. \A f \in {"type", "activationMode", "durationMs", "configuration"} : e.nodes[n][f] = d.nodes[n][f]
  BY <1>3, NodeImpacts, BelowThresholds, PartsAndFields
<1>5. \A side \in {"inputs", "outputs"} : PortIds(d.nodes[n][side]) = PortIds(e.nodes[n][side])
  BY <1>3, NodeImpacts, PortsBelow, PartsAndFields
<1>6. QED
  BY <1>2, <1>4, <1>5

\* The same of the edges and the variables.
LEMMA QuietRest ==
  ASSUME NEW d, NEW e, IsDefinition(d), IsDefinition(e), Quiet(d, e, "behavioral")
  PROVE  /\ DOMAIN d.edges = DOMAIN e.edges /\ DOMAIN d.variables = DOMAIN e.variables
         /\ \A id \in DOMAIN d.edges :
              \A f \in {"source", "target", "sourcePort", "targetPort", "condition", "isDefault", "priority"} :
                e.edges[id][f] = d.edges[id][f]
         /\ \A v \in DOMAIN d.variables : e.variables[v].default = d.variables[v].default
<1>1. QuietPart("edges", d, e, "behavioral") /\ QuietPart("variables", d, e, "behavioral")
  BY PartsAndFields DEF Quiet
<1>2. \A part \in {"edges", "variables"} : \A x : /\ AddedImpact(part, x) \in Thresholds
                                                  /\ RemovedImpact(part, x) \in Thresholds
  BY DEF AddedImpact, RemovedImpact, Thresholds
<1>3. DOMAIN d["edges"] = DOMAIN e["edges"]
  BY <1>1, <1>2, BelowThresholds DEF QuietPart
<1>4. DOMAIN d["variables"] = DOMAIN e["variables"]
  BY <1>1, <1>2, BelowThresholds DEF QuietPart
<1>5. \A f \in {"source", "target", "sourcePort", "targetPort", "condition", "isDefault", "priority"} : \A x, y :
        FieldImpact("edges", f, x, y) \in Thresholds
  BY DEF FieldImpact, EDGE_IMPACT, Thresholds
<1>6. \A x, y : FieldImpact("variables", "default", x, y) \in Thresholds
  BY DEF FieldImpact, VariableFieldImpact, VARIABLE_IMPACT, Thresholds
<1>7. \A id \in DOMAIN d["edges"] :
        \A f \in {"source", "target", "sourcePort", "targetPort", "condition", "isDefault", "priority"} :
          e["edges"][id][f] = d["edges"][id][f]
  BY <1>1, <1>3, <1>5, BelowThresholds, PartsAndFields DEF QuietPart
<1>8. \A v \in DOMAIN d["variables"] : e["variables"][v]["default"] = d["variables"][v]["default"]
  BY <1>1, <1>4, <1>6, BelowThresholds, PartsAndFields DEF QuietPart
<1>9. QED
  BY <1>3, <1>4, <1>7, <1>8

\* Without a change of behaviour the engine executes the same.
LEMMA QuietIsExecutedAlike ==
  ASSUME NEW d, NEW e, IsDefinition(d), IsDefinition(e), Quiet(d, e, "behavioral")
  PROVE  Executed(d) = Executed(e)
<1>1. Quiet(e, d, "behavioral")
  BY QuietIsSymmetric
<1>2. {n \in DOMAIN d.nodes : d.nodes[n].type # "group"} = {n \in DOMAIN e.nodes : e.nodes[n].type # "group"}
  BY <1>1, QuietNode
<1>3. ASSUME NEW n \in DOMAIN d.nodes, d.nodes[n].type # "group"
      PROVE  /\ d.nodes[n].type = e.nodes[n].type /\ d.nodes[n].activationMode = e.nodes[n].activationMode
             /\ d.nodes[n].durationMs = e.nodes[n].durationMs /\ d.nodes[n].configuration = e.nodes[n].configuration
             /\ PortIds(d.nodes[n].inputs) = PortIds(e.nodes[n].inputs)
             /\ PortIds(d.nodes[n].outputs) = PortIds(e.nodes[n].outputs)
  BY <1>3, QuietNode
<1>4. QED
  BY <1>2, <1>3, QuietRest DEF Executed
\* A difference below "breaking" keeps what stands outside a definition and names its parts.
LEMMA QuietKeeps ==
  ASSUME NEW d, NEW e, IsDefinition(d), IsDefinition(e), Quiet(d, e, "breaking")
  PROVE  Keeps(d, e)
<1>1. QuietPart("nodes", d, e, "breaking") /\ QuietPart("edges", d, e, "breaking") /\ QuietPart("variables", d, e, "breaking")
  BY PartsAndFields DEF Quiet
<1>2. ASSUME NEW n \in DOMAIN d.nodes, d.nodes[n].type # "group"
      PROVE  /\ n \in DOMAIN e.nodes /\ e.nodes[n].type = d.nodes[n].type
             /\ \A side \in {"inputs", "outputs"} : PortIds(d.nodes[n][side]) \subseteq PortIds(e.nodes[n][side])
             /\ d.nodes[n].type = "trigger" => e.nodes[n].configuration = d.nodes[n].configuration
  <2>1. n \in DOMAIN e.nodes
    <3>1. RemovedImpact("nodes", d["nodes"][n]) = "breaking"
      BY <1>2 DEF RemovedImpact, RemovedNode
    <3>2. QED
      BY <1>1, <1>2, <3>1, BelowThresholds DEF QuietPart
  <2>2. \A f \in Fields["nodes"] : d["nodes"][n][f] # e["nodes"][n][f]
                                   => Below(FieldImpact("nodes", f, d["nodes"][n], e["nodes"][n]), "breaking")
    BY <1>1, <1>2, <2>1 DEF QuietPart
  <2>3. e.nodes[n].type = d.nodes[n].type
    BY <2>2, NodeImpacts, BelowThresholds, PartsAndFields
  <2>4. \A side \in {"inputs", "outputs"} : PortIds(d.nodes[n][side]) \subseteq PortIds(e.nodes[n][side])
    BY <2>2, NodeImpacts, PortsBelow, PartsAndFields
  <2>5. d.nodes[n].type = "trigger" => e.nodes[n].configuration = d.nodes[n].configuration
    BY <2>2, NodeImpacts, BelowThresholds, PartsAndFields
  <2>6. QED
    BY <2>1, <2>3, <2>4, <2>5
<1>3. ASSUME NEW id \in DOMAIN d.edges
      PROVE  id \in DOMAIN e.edges /\ \A f \in {"source", "target", "sourcePort", "targetPort"} : e.edges[id][f] = d.edges[id][f]
  <2>1. id \in DOMAIN e.edges
    BY <1>1, <1>3, BelowThresholds DEF QuietPart, RemovedImpact
  <2>2. \A f \in {"source", "target", "sourcePort", "targetPort"} : \A x, y : FieldImpact("edges", f, x, y) = "breaking"
    BY DEF FieldImpact, EDGE_IMPACT
  <2>3. QED
    BY <1>1, <1>3, <2>1, <2>2, BelowThresholds, PartsAndFields DEF QuietPart
<1>4. ASSUME NEW v \in DOMAIN d.variables
      PROVE  v \in DOMAIN e.variables /\ e.variables[v].type = d.variables[v].type
  <2>1. v \in DOMAIN e.variables
    BY <1>1, <1>4, BelowThresholds DEF QuietPart, RemovedImpact
  <2>2. \A x, y : FieldImpact("variables", "type", x, y) = "breaking"
    BY DEF FieldImpact, VariableFieldImpact, VARIABLE_IMPACT
  <2>3. QED
    BY <1>1, <1>4, <2>1, <2>2, BelowThresholds, PartsAndFields DEF QuietPart
<1>5. ASSUME NEW v \in DOMAIN e.variables, e.variables[v].required
      PROVE  v \in DOMAIN d.variables /\ d.variables[v].required
  <2>1. v \in DOMAIN d.variables
    <3>1. AddedImpact("variables", e["variables"][v]) = "breaking"
      BY <1>5 DEF AddedImpact
    <3>2. QED
      BY <1>1, <1>5, <3>1, BelowThresholds DEF QuietPart
  <2>2. d["variables"][v].required \in BOOLEAN /\ e["variables"][v].required \in BOOLEAN
    BY <1>5, <2>1, PartsAndFields DEF IsDefinition, IsItem
  <2>3. ASSUME ~d["variables"][v].required PROVE FALSE
    <3>1. FieldImpact("variables", "required", d["variables"][v], e["variables"][v]) = "breaking"
      BY <1>5, <2>3 DEF FieldImpact, VariableFieldImpact, RequiredImpact
    <3>2. d["variables"][v]["required"] # e["variables"][v]["required"]
      BY <1>5, <2>2, <2>3
    <3>3. QED
      BY <1>1, <1>5, <2>1, <3>1, <3>2, BelowThresholds, PartsAndFields DEF QuietPart
  <2>4. QED
    BY <2>1, <2>3
<1>6. QED
  BY <1>2, <1>3, <1>4, <1>5 DEF Keeps
-------------------------------------------------------------------------------
(* The reports                                                             *)

\* What a report says of its candidate.
Rejected(r) ==
  CASE r.command = "check" -> ~r.passed
    [] r.command = "diff"  -> FALSE
    [] OTHER -> ~r.valid

HasError(results) == \E x \in results : x[2] = "error"

\* The reports that the commands make.
Verdict(r) ==
  /\ r.command \in {"validate", "simulate"}
  /\ r.valid = (r.issues \subseteq WarningCodes)

GateVerdict(r) ==
  /\ r.command = "check"
  /\ r.valid = (r.issues \subseteq WarningCodes)
  /\ r.violating \subseteq r.diff.changes
  /\ r.passed = (r.valid /\ r.violating = {})

\* Some rule of the log is an error exactly when some result is.
LEMMA RulesAgree ==
  ASSUME NEW r, \A x \in resultsFor(r) : x = <<x[1], x[2]>> /\ x[2] \in {"note", "warning", "error"}
  PROVE  HasError(SarifRules(r)) <=> HasError(resultsFor(r))
<1>1. \A l \in {"note", "warning", "error"} : LEVEL_RANK[l] <= LEVEL_RANK["error"]
  BY DEF LEVEL_RANK
<1>2. ASSUME NEW x \in resultsFor(r), x[2] = "error" PROVE <<x[1], x[2]>> \in SarifRules(r)
  BY <1>1, <1>2 DEF SarifRules
<1>3. ASSUME NEW x \in resultsFor(r), x[2] = "error" PROVE HasError(SarifRules(r))
  <2>1. <<x[1], x[2]>>[2] = "error"
    BY <1>3
  <2>2. QED
    BY <1>2, <1>3, <2>1 DEF HasError
<1>4. \A x \in SarifRules(r) : \E y \in resultsFor(r) : x[2] = y[2]
  BY DEF SarifRules
<1>5. QED
  BY <1>3, <1>4 DEF HasError

\* The log of a validation or a simulation.
LEMMA VerdictAgrees ==
  ASSUME NEW r, Verdict(r)
  PROVE  /\ HasError(resultsFor(r)) = Rejected(r)
         /\ HasError(SarifRules(r)) = Rejected(r)
<1> DEFINE I == {<<code, issueLevel(code)>> : code \in r.issues}
<1>1. I \subseteq resultsFor(r) /\ resultsFor(r) \subseteq I \cup SimulationFailed
  BY DEF resultsFor, Verdict
<1>2. \A x \in SimulationFailed : x = <<x[1], x[2]>> /\ x[2] = "warning"
  BY DEF SimulationFailed
<1>3. HasError(resultsFor(r)) <=> ~(r.issues \subseteq WarningCodes)
  <2>1. HasError(I) <=> \E code \in r.issues : <<code, issueLevel(code)>>[2] = "error"
    BY DEF HasError
  <2>2. \A code : issueLevel(code) = "error" <=> code \notin WarningCodes
    BY DEF issueLevel
  <2>3. \A code : <<code, issueLevel(code)>>[2] = "error" <=> code \notin WarningCodes
    BY <2>2
  <2> HIDE DEF I
  <2>4. HasError(resultsFor(r)) <=> HasError(I)
    BY <1>1, <1>2 DEF HasError
  <2>5. QED
    BY <2>1, <2>3, <2>4
<1>4. \A x \in resultsFor(r) : x = <<x[1], x[2]>> /\ x[2] \in {"note", "warning", "error"}
  <2>1. \A x \in I : x = <<x[1], x[2]>> /\ x[2] \in {"note", "warning", "error"}
    BY DEF issueLevel
  <2> HIDE DEF I
  <2>2. QED
    BY <1>1, <1>2, <2>1
<1>5. Rejected(r) = ~(r.issues \subseteq WarningCodes)
  BY DEF Rejected, Verdict
<1>6. QED
  BY <1>3, <1>4, <1>5, RulesAgree DEF HasError

\* The log of a difference.
LEMMA DifferenceAgrees ==
  ASSUME NEW r, r.command = "diff"
  PROVE  /\ HasError(resultsFor(r)) = Rejected(r)
         /\ HasError(SarifRules(r)) = Rejected(r)
<1>1. resultsFor(r) = {<<c.impact, changeLevel(c, c \in {})>> : c \in r.diff.changes}
  BY DEF resultsFor
<1>2. \A c : changeLevel(c, c \in {}) \in {"note", "warning"}
  BY DEF changeLevel
<1>3. \A x \in resultsFor(r) : x = <<x[1], x[2]>> /\ x[2] \in {"note", "warning"}
  BY <1>1, <1>2
<1>4. ~HasError(resultsFor(r)) /\ Rejected(r) = FALSE
  BY <1>3 DEF HasError, Rejected
<1>5. QED
  BY <1>3, <1>4, RulesAgree DEF HasError

\* The log of a gate.
LEMMA GateAgrees ==
  ASSUME NEW r, GateVerdict(r)
  PROVE  /\ HasError(resultsFor(r)) = Rejected(r)
         /\ HasError(SarifRules(r)) = Rejected(r)
<1> DEFINE I == {<<code, issueLevel(code)>> : code \in r.issues}
           C == {<<c.impact, changeLevel(c, c \in r.violating)>> : c \in r.diff.changes}
<1>1. resultsFor(r) = I \cup C
  BY DEF resultsFor, GateVerdict
<1>2. HasError(I) <=> ~(r.issues \subseteq WarningCodes)
  <2>1. \A code : issueLevel(code) = "error" <=> code \notin WarningCodes
    BY DEF issueLevel
  <2>2. HasError(I) <=> \E code \in r.issues : <<code, issueLevel(code)>>[2] = "error"
    BY DEF HasError
  <2>3. \A code : <<code, issueLevel(code)>>[2] = "error" <=> code \notin WarningCodes
    BY <2>1
  <2>4. QED
    BY <2>2, <2>3
<1>3. HasError(C) <=> r.violating # {}
  <2>1. \A c : changeLevel(c, c \in r.violating) = "error" <=> c \in r.violating
    BY DEF changeLevel
  <2>2. r.violating \subseteq r.diff.changes
    BY DEF GateVerdict
  <2>3. HasError(C) <=> \E c \in r.diff.changes : <<c.impact, changeLevel(c, c \in r.violating)>>[2] = "error"
    BY DEF HasError
  <2>4. \A c : <<c.impact, changeLevel(c, c \in r.violating)>>[2] = "error" <=> c \in r.violating
    BY <2>1
  <2>5. QED
    BY <2>2, <2>3, <2>4
<1>4. \A x \in I \cup C : x = <<x[1], x[2]>> /\ x[2] \in {"note", "warning", "error"}
  <2>1. /\ \A code : issueLevel(code) \in {"note", "warning", "error"}
        /\ \A c : changeLevel(c, c \in r.violating) \in {"note", "warning", "error"}
    BY DEF issueLevel, changeLevel
  <2>2. QED
    BY <2>1
<1>5. Rejected(r) = (~(r.issues \subseteq WarningCodes) \/ r.violating # {})
  BY DEF Rejected, GateVerdict
<1> HIDE DEF I, C
<1>6. HasError(resultsFor(r)) <=> HasError(I) \/ HasError(C)
  BY <1>1 DEF HasError
<1>7. HasError(resultsFor(r)) <=> Rejected(r)
  BY <1>2, <1>3, <1>5, <1>6
<1>8. HasError(SarifRules(r)) <=> HasError(resultsFor(r))
  BY <1>1, <1>4, RulesAgree
<1>9. QED
  BY <1>5, <1>7, <1>8 DEF HasError
-------------------------------------------------------------------------------
(* The outcome of a command line                                           *)

Refused(o)  == o.report = NoReport
Reports(o, p) ==
  LET def == Definition(p.positionals[1])
  IN  o \in {Judged(validateDefinition(def)), Judged(simulateDefinition(def, p))}
Invalid(o)  == \E c \in {"validate", "simulate", "check"} : \E t :
                 o = Result(invalidReport(c, t), 1)
Compares(o) == \E d, e : o = Result(diffDefinitions(d, e), 0)
Gates(o, p) ==
  LET def == Definition(p.positionals[1])
  IN  o = Judged(checkDefinition(def, Difference(p, def), checkThreshold(p))) /\ ~UsageError("check", p)

\* The policy of a gate that takes its flags is one of the three.
LEMMA GatePolicy ==
  ASSUME NEW p, ~UsageError("check", p)
  PROVE  /\ checkThreshold(p) \in {"none", "behavioral", "breaking"}
         /\ checkThreshold(p) # "none" => Has(p, "baseline")
<1>1. /\ ~BadSelection(Policies(p), {"none", "behavioral", "breaking"})
      /\ checkThreshold(p) # "none" => Has(p, "baseline")
  BY DEF UsageError
<1>2. \A s \in Policies(p) : s[2] \in {"none", "behavioral", "breaking"}
  BY <1>1 DEF BadSelection
<1>3. CASE Policies(p) = {}
  BY <1>1, <1>3 DEF checkThreshold
<1>4. CASE Policies(p) # {}
  <2>1. (CHOOSE s \in Policies(p) : TRUE) \in Policies(p)
    BY <1>4
  <2>2. QED
    BY <1>1, <1>2, <1>4, <2>1 DEF checkThreshold
<1>5. QED
  BY <1>3, <1>4

\* What a command may come to.
LEMMA Outcomes ==
  ASSUME NEW i, NEW p
  PROVE  \/ Refused(Outcome(i, p)) \/ Reports(Outcome(i, p), p) \/ Invalid(Outcome(i, p))
         \/ Compares(Outcome(i, p)) \/ Gates(Outcome(i, p), p)
<1>1. \A k : Refused(Throws(k))
  BY DEF Refused, Throws, Result
<1>2. CASE p.error \/ WantsHelp(i, p)
  BY <1>1, <1>2 DEF Outcome
<1>3. CASE ~p.error /\ ~WantsHelp(i, p) /\ UsageError(i.command, p)
  BY <1>1, <1>3 DEF Outcome, execute
<1>4. CASE ~p.error /\ ~WantsHelp(i, p) /\ ~UsageError(i.command, p)
  <2>1. i.command \in {"validate", "diff", "simulate", "check"} /\ Outcome(i, p) = execute(i.command, p)
    BY <1>4 DEF Outcome, UsageError, Allowed
  <2>2. ASSUME NEW c \in {"validate", "simulate", "check"}, NEW o
        PROVE  \/ Refused(Candidate(c, p, o)) \/ Invalid(Candidate(c, p, o)) \/ Candidate(c, p, o) = o
    <3>1. Unreadable \cap NotFlows = {}
      BY ReviewAssumed DEF ReviewAssumption
    <3>2. CASE p.positionals[1] \in Unreadable
      BY <1>1, <3>1, <3>2 DEF Candidate
    <3>3. CASE p.positionals[1] \in NotFlows
      BY <2>2, <3>1, <3>3 DEF Candidate, Invalid
    <3>4. CASE p.positionals[1] \notin Unreadable \cup NotFlows
      BY <3>4 DEF Candidate
    <3>5. QED
      BY <3>2, <3>3, <3>4
  <2>3. CASE i.command = "validate"
    <3> DEFINE v == validateDefinition(Definition(p.positionals[1]))
    <3>1. Outcome(i, p) = Candidate("validate", p, Judged(v))
      BY <1>4, <2>1, <2>3 DEF execute, Validate
    <3>2. Reports(Judged(v), p)
      BY DEF Reports
    <3> HIDE DEF v
    <3>3. QED
      BY <3>1, <3>2, <2>2
  <2>4. CASE i.command = "diff"
    <3>1. Outcome(i, p) = Diff(p)
      BY <1>4, <2>1, <2>4 DEF execute
    <3>2. QED
      BY <1>1, <3>1 DEF Diff, Compares
  <2>5. CASE i.command = "simulate"
    <3> DEFINE def == Definition(p.positionals[1])
               r   == simulateDefinition(def, p)
               o   == CASE HasMalformed(p) -> Throws(2)
                        [] OTHER -> IF r.valid /\ PlanRefused(def, p) THEN Throws(1) ELSE Judged(r)
    <3>1. Outcome(i, p) = Candidate("simulate", p, o)
      BY <1>4, <2>1, <2>5 DEF execute, Simulate
    <3>2. Reports(Judged(r), p)
      BY DEF Reports
    <3>3. Refused(o) \/ Reports(o, p)
      BY <1>1, <3>2
    <3> HIDE DEF o
    <3>4. QED
      BY <3>1, <3>3, <2>2
  <2>6. CASE i.command = "check"
    <3> DEFINE def == Definition(p.positionals[1])
               o   == IF Has(p, "baseline") /\ ~Loads(flag(p, "baseline")) THEN Throws(2)
                      ELSE Judged(checkDefinition(def, Difference(p, def), checkThreshold(p)))
    <3>1. Outcome(i, p) = Candidate("check", p, o)
      BY <1>4, <2>1, <2>6 DEF execute, Check
    <3>2. Refused(o) \/ Gates(o, p)
      BY <1>1, <1>4, <2>6 DEF Gates
    <3> HIDE DEF o
    <3>3. QED
      BY <3>1, <3>2, <2>2
  <2>7. QED
    BY <2>1, <2>3, <2>4, <2>5, <2>6
<1>5. QED
  BY <1>2, <1>3, <1>4
\* What the two commands without a policy report.
LEMMA ReportsAreVerdicts ==
  ASSUME NEW def, NEW p, NEW r \in {validateDefinition(def), simulateDefinition(def, p)}
  PROVE  Verdict(r) /\ r.issues = IssuesOf(def)
<1>1. CASE r = validateDefinition(def)
  BY <1>1 DEF Verdict, validateDefinition, ValidationOf
<1>2. CASE r = simulateDefinition(def, p)
  BY <1>2 DEF Verdict, simulateDefinition, SimulationOf
<1>3. QED
  BY <1>1, <1>2

\* The log and the exit code of every report agree.
LEMMA OutcomeAgrees ==
  ASSUME NEW i, NEW p, NEW r, r = Outcome(i, p).report, r # NoReport
  PROVE  /\ HasError(resultsFor(r)) = Rejected(r)
         /\ HasError(SarifRules(r)) = Rejected(r)
<1> DEFINE o == Outcome(i, p)
<1>1. \A x, k : Result(x, k).report = x /\ Judged(x).report = x
  BY DEF Result, Judged
<1>2. CASE Reports(o, p)
  <2>1. r \in {validateDefinition(Definition(p.positionals[1])), simulateDefinition(Definition(p.positionals[1]), p)}
    BY <1>1, <1>2 DEF Reports
  <2>2. Verdict(r)
    BY <2>1, ReportsAreVerdicts
  <2>3. QED
    BY <2>2, VerdictAgrees
<1>3. CASE Invalid(o)
  <2>0. PICK c \in {"validate", "simulate", "check"} : \E t : r = invalidReport(c, t)
    BY <1>1, <1>3 DEF Invalid
  <2>1. PICK t : r = invalidReport(c, t)
    BY <2>0
  <2>2. ~(SchemaIssues \subseteq WarningCodes)
    BY ReviewAssumed DEF ReviewAssumption, SchemaIssues
  <2>3. CASE c = "check"
    <3>1. /\ r.command = "check" /\ r.valid = FALSE /\ r.issues = SchemaIssues /\ r.diff = [changes |-> {}]
          /\ r.violating = {} /\ r.passed = FALSE
      BY <2>1, <2>3 DEF invalidReport, NoDiff
    <3>2. r.valid = (r.issues \subseteq WarningCodes) /\ r.passed = (r.valid /\ r.violating = {})
      BY <2>2, <3>1
    <3>3. GateVerdict(r)
      BY <3>1, <3>2 DEF GateVerdict
    <3>4. QED
      BY <3>3, GateAgrees
  <2>4. CASE c # "check"
    <3>1. r \in {ValidationOf(SchemaIssues), SimulationOf(SchemaIssues, FALSE)}
      BY <2>1, <2>4 DEF invalidReport
    <3>2. Verdict(r)
      BY <2>2, <3>1 DEF Verdict, ValidationOf, SimulationOf
    <3>3. QED
      BY <3>2, VerdictAgrees
  <2>5. QED
    BY <2>3, <2>4
<1>4. CASE Compares(o)
  <2>1. r.command = "diff"
    BY <1>1, <1>4 DEF Compares, diffDefinitions
  <2>2. QED
    BY <2>1, DifferenceAgrees
<1>5. CASE Gates(o, p)
  <2> DEFINE def == Definition(p.positionals[1])
  <2>1. r = checkDefinition(def, Difference(p, def), checkThreshold(p))
    BY <1>1, <1>5 DEF Gates
  <2>2. GateVerdict(r)
    BY <2>1 DEF GateVerdict, checkDefinition, CheckOf, validateDefinition, ValidationOf
  <2>3. QED
    BY <2>2, GateAgrees
<1>6. QED
  BY <1>2, <1>3, <1>4, <1>5, Outcomes DEF Refused

\* The definitions that the command line reads.
LEMMA DefinitionType ==
  ASSUME IsDefinition(after), NEW file
  PROVE  IsDefinition(Definition(file))
BY ReviewAssumed DEF ReviewAssumption, Definition

\* A difference in which no change violates the policy is quiet at the policy.
LEMMA PassedIsQuiet ==
  ASSUME NEW d, NEW e, IsDefinition(d), IsDefinition(e), NEW t \in Thresholds,
         {c \in diffFlowDefinitions(d, e).changes : changeViolatesThreshold(c, t)} = {}
  PROVE  Quiet(d, e, t)
<1>1. Measured(diffFlowDefinitions(d, e).changes, Quiet(d, e, t), t)
  BY ChangesBelow
<1>2. ASSUME NEW c \in diffFlowDefinitions(d, e).changes PROVE Below(c.impact, t)
  <2>1. c.impact \in Impacts /\ ~changeViolatesThreshold(c, t)
    BY <1>1 DEF Measured
  <2>2. IMPACT_RANK[c.impact] \in 1..3 /\ IMPACT_RANK[t] \in 1..3 /\ t # "none"
    BY <2>1, Ranks DEF Thresholds, Impacts
  <2>3. QED
    BY <2>1, <2>2 DEF changeViolatesThreshold, Below
<1>3. QED
  BY <1>1, <1>2 DEF Measured

\* Exit code 0 keeps what the command promises.
LEMMA OutcomeIsSound ==
  ASSUME IsDefinition(after), NEW i, NEW p, NEW r, r = Outcome(i, p).report, Outcome(i, p).exitCode = 0,
         r.command \in {"validate", "simulate", "check"}
  PROVE  LET candidate == Definition(p.positionals[1])
             threshold == IF r.command = "check" THEN r.failOn ELSE "none"
         IN  /\ IssuesOf(candidate) \subseteq WarningCodes
             /\ threshold # "none" => Keeps(Definition(flag(p, "baseline")), candidate)
             /\ threshold = "behavioral" => Executed(Definition(flag(p, "baseline"))) = Executed(candidate)
<1> DEFINE o == Outcome(i, p)
           candidate == Definition(p.positionals[1])
           baseline  == Definition(flag(p, "baseline"))
           t == checkThreshold(p)
<1>1. \A x, k : Result(x, k).report = x /\ Result(x, k).exitCode = k /\ Judged(x).report = x
  BY DEF Result, Judged
<1>2. CASE Refused(o)
  BY <1>2 DEF Refused, NoReport
<1>3. CASE Reports(o, p)
  <2>1. o \in {Judged(validateDefinition(candidate)), Judged(simulateDefinition(candidate, p))}
    BY <1>3 DEF Reports
  <2>2. r \in {validateDefinition(candidate), simulateDefinition(candidate, p)} /\ o = Judged(r)
    BY <1>1, <2>1
  <2>3. /\ r.command \in {"validate", "simulate"} /\ r.valid = (r.issues \subseteq WarningCodes)
        /\ r.issues = IssuesOf(candidate)
    <3> HIDE DEF candidate
    <3>1. QED
      BY <2>2, ReportsAreVerdicts DEF Verdict
  <2>4. o = Judged(r)
    BY <2>2
  <2>5. o.exitCode = IF r.valid THEN 0 ELSE 1
    BY <1>1, <2>3, <2>4 DEF Judged
  <2>6. r.valid
    BY <2>5
  <2>7. QED
    BY <2>3, <2>6
<1>4. CASE Invalid(o)
  BY <1>1, <1>4 DEF Invalid
<1>5. CASE Compares(o)
  BY <1>1, <1>5 DEF Compares, diffDefinitions
<1>6. CASE Gates(o, p)
  <2>1. r = checkDefinition(candidate, Difference(p, candidate), t) /\ o = Judged(r)
    BY <1>1, <1>6 DEF Gates
  <2>2. r.command = "check" /\ r.failOn = t
        /\ r.passed = (IssuesOf(candidate) \subseteq WarningCodes
                       /\ {c \in Difference(p, candidate).changes : changeViolatesThreshold(c, t)} = {})
    <3> HIDE DEF candidate, t
    <3>1. validateDefinition(candidate).valid = (IssuesOf(candidate) \subseteq WarningCodes)
      BY DEF validateDefinition, ValidationOf
    <3> DEFINE V == {c \in Difference(p, candidate).changes : changeViolatesThreshold(c, t)}
    <3>2. r = CheckOf(validateDefinition(candidate), Difference(p, candidate), t)
      BY <2>1 DEF checkDefinition
    <3>3. r.command = "check" /\ r.failOn = t
      BY <3>2 DEF CheckOf
    <3>4. r.passed = (validateDefinition(candidate).valid /\ V = {})
      BY <3>2 DEF CheckOf
    <3> HIDE DEF V
    <3>5. r.passed = (IssuesOf(candidate) \subseteq WarningCodes /\ V = {})
      BY <3>1, <3>4
    <3>6. QED
      BY <3>3, <3>5 DEF V
  <2>3. r.passed
    BY <1>1, <2>1, <2>2 DEF Judged
  <2>4. t \in {"none", "behavioral", "breaking"} /\ (t # "none" => Has(p, "baseline"))
    BY <1>6, GatePolicy DEF Gates
  <2>5. IsDefinition(candidate) /\ IsDefinition(baseline)
    BY DefinitionType
  <2>6. ASSUME t # "none" PROVE Quiet(baseline, candidate, t)
    <3>1. Difference(p, candidate) = diffFlowDefinitions(baseline, candidate) /\ t \in Thresholds
      BY <2>4, <2>6 DEF Difference, Thresholds
    <3> HIDE DEF candidate, baseline, t
    <3>2. QED
      BY <3>1, <2>2, <2>3, <2>5, PassedIsQuiet
  <2> HIDE DEF candidate, baseline, t
  <2>7. t # "none" => Keeps(baseline, candidate)
    BY <2>4, <2>5, <2>6, QuieterIsQuiet, QuietKeeps
  <2>8. t = "behavioral" => Executed(baseline) = Executed(candidate)
    BY <2>5, <2>6, QuietIsExecutedAlike
  <2>9. QED
    BY <2>2, <2>3, <2>7, <2>8 DEF candidate, baseline, t
<1>7. QED
  BY <1>2, <1>3, <1>4, <1>5, <1>6, Outcomes

-------------------------------------------------------------------------------
(* The invariant                                                           *)

\* The definition stays one while it is edited; from then on the report is the outcome of the
\* command line, and so is the exit code until the report fails to be written.
ReviewInv ==
  /\ IsDefinition(after)
  /\ phase \in {"editing", "reported", "ended"}
  /\ written => phase = "ended"
  /\ phase # "editing" =>
       /\ report = Outcome(invocation, Line).report
       /\ phase = "reported" \/ written => exitCode = Outcome(invocation, Line).exitCode
\* The report and the exit code before it is written.
LEMMA ReviewInit == Init => ReviewInv
BY ReviewAssumed DEF Init, ReviewInv, ReviewAssumption

\* An item keeps its fields when one of them is set.
LEMMA ItemKept ==
  ASSUME NEW part, NEW item, IsItem(part, item), NEW field \in Fields[part], NEW v,
         part = "variables" /\ field = "required" => v \in BOOLEAN
  PROVE  IsItem(part, [item EXCEPT ![field] = v])
<1> DEFINE x == [item EXCEPT ![field] = v]
<1>1. item = [f \in Fields[part] |-> item[f]]
  BY DEF IsItem
<1>2. DOMAIN item = Fields[part]
  BY <1>1
<1>3. x = [f \in Fields[part] |-> IF f = field THEN v ELSE item[f]]
  BY <1>2
<1>4. x = [f \in Fields[part] |-> x[f]]
  BY <1>3
<1>5. ASSUME part = "variables" PROVE x.required \in BOOLEAN
  <2>1. "required" \in Fields[part] /\ item.required \in BOOLEAN
    BY <1>5, PartsAndFields DEF IsItem
  <2>2. x["required"] = IF "required" = field THEN v ELSE item["required"]
    BY <1>3, <2>1
  <2>3. QED
    BY <1>5, <2>1, <2>2
<1>6. QED
  BY <1>4, <1>5 DEF IsItem

\* A definition stays one when the items of a part are replaced by items; flow and layout keep their record.
LEMMA PartKept ==
  ASSUME NEW d, IsDefinition(d), NEW part \in DOMAIN Fields, NEW items,
         items = [id \in DOMAIN items |-> items[id]], \A id \in DOMAIN items : IsItem(part, items[id]),
         part \in {"flow", "layout"} => DOMAIN items = DOMAIN d[part]
  PROVE  IsDefinition([d EXCEPT ![part] = items])
<1> DEFINE x == [d EXCEPT ![part] = items]
<1>1. d = [q \in DOMAIN Fields |-> d[q]]
  BY DEF IsDefinition
<1>2. x = [q \in DOMAIN Fields |-> IF q = part THEN items ELSE d[q]]
  BY <1>1
<1>3. x = [q \in DOMAIN Fields |-> x[q]] /\ x[part] = items
  BY <1>2
<1>4. \A q \in DOMAIN Fields : q # part => x[q] = d[q]
  BY <1>2
<1> HIDE DEF x
<1>5. \A q \in DOMAIN Fields : /\ x[q] = [id \in DOMAIN x[q] |-> x[q][id]]
                               /\ \A id \in DOMAIN x[q] : IsItem(q, x[q][id])
  <2>1. TAKE q \in DOMAIN Fields
  <2>2. CASE q = part
    BY <1>3, <2>2
  <2>3. CASE q # part
    BY <1>4, <2>3 DEF IsDefinition
  <2>4. QED
    BY <2>2, <2>3
<1>6. DOMAIN x["flow"] = {"flow"} /\ DOMAIN x["layout"] = {"layout"}
  <2>1. DOMAIN d["flow"] = {"flow"} /\ DOMAIN d["layout"] = {"layout"}
    BY DEF IsDefinition
  <2>2. QED
    BY <1>3, <1>4, <2>1, PartsAndFields
<1>7. IsDefinition(x)
  BY <1>3, <1>5, <1>6 DEF IsDefinition
<1>8. QED
  BY <1>7 DEF x

\* A part of a definition is a function from ids to items.
LEMMA PartType ==
  ASSUME NEW d, IsDefinition(d), NEW part \in DOMAIN Fields
  PROVE  d[part] = [id \in DOMAIN d[part] |-> d[part][id]] /\ \A id \in DOMAIN d[part] : IsItem(part, d[part][id])
BY DEF IsDefinition

\* Editing keeps the definition one.
LEMMA EditingKeepsType ==
  ASSUME IsDefinition(after), SetField \/ AddItem \/ RemoveItem
  PROVE  IsDefinition(after')
<1>0. after = [q \in DOMAIN Fields |-> after[q]]
  BY DEF IsDefinition
<1>1. CASE SetField
  <2>1. PICK part \in DOMAIN Values : \E id \in DOMAIN after[part], field \in DOMAIN Values[part] :
          \E v \in Values[part][field] : after' = [after EXCEPT ![part][id][field] = v]
    BY <1>1 DEF SetField
  <2>2. PICK id \in DOMAIN after[part] : \E field \in DOMAIN Values[part] :
          \E v \in Values[part][field] : after' = [after EXCEPT ![part][id][field] = v]
    BY <2>1
  <2>3. PICK field \in DOMAIN Values[part] : \E v \in Values[part][field] : after' = [after EXCEPT ![part][id][field] = v]
    BY <2>2
  <2>4. PICK v \in Values[part][field] : after' = [after EXCEPT ![part][id][field] = v]
    BY <2>3
  <2>5. part \in DOMAIN Fields /\ field \in Fields[part]
    BY ReviewAssumed DEF ReviewAssumption
  <2>6. part = "variables" /\ field = "required" => v \in BOOLEAN
    BY ReviewAssumed DEF ReviewAssumption
  <2> DEFINE old  == after[part]
             item == [old[id] EXCEPT ![field] = v]
             items == [old EXCEPT ![id] = item]
  <2>7. old = [k \in DOMAIN old |-> old[k]] /\ \A k \in DOMAIN old : IsItem(part, old[k])
    BY <2>5, PartType
  <2>8. IsItem(part, item)
    BY <2>5, <2>6, <2>7, ItemKept
  <2>9. after' = [after EXCEPT ![part] = items]
    BY <1>0, <2>4, <2>5
  <2> HIDE DEF item
  <2>10. items = [k \in DOMAIN old |-> IF k = id THEN item ELSE old[k]]
    BY <2>7
  <2>11. DOMAIN items = DOMAIN old /\ items = [k \in DOMAIN items |-> items[k]]
    BY <2>10
  <2>12. \A k \in DOMAIN items : IsItem(part, items[k])
    BY <2>7, <2>8, <2>10
  <2> HIDE DEF items
  <2>13. QED
    BY <2>5, <2>9, <2>11, <2>12, PartKept
<1>2. CASE AddItem
  <2> DEFINE Added(part, id, item) ==
               after' = [after EXCEPT ![part] = [i \in {id} \cup DOMAIN @ |-> IF i = id THEN item ELSE @[i]]]
  <2>1. PICK part \in Parts : \E id \in NewIds[part] \ DOMAIN after[part], item \in New[part] : Added(part, id, item)
    BY <1>2 DEF AddItem
  <2>2. PICK id : \E item \in New[part] : Added(part, id, item)
    BY <2>1
  <2>3. PICK item \in New[part] : Added(part, id, item)
    BY <2>2
  <2>4. part \in DOMAIN Fields /\ part \notin {"flow", "layout"} /\ IsItem(part, item)
    BY ReviewAssumed, PartsAndFields DEF ReviewAssumption, Parts
  <2> DEFINE old == after[part]
             items == [i \in {id} \cup DOMAIN old |-> IF i = id THEN item ELSE old[i]]
  <2>5. \A k \in DOMAIN old : IsItem(part, old[k])
    BY <2>4, PartType
  <2>6. after' = [after EXCEPT ![part] = items]
    BY <1>0, <2>3, <2>4
  <2>7. items = [k \in DOMAIN items |-> items[k]] /\ \A k \in DOMAIN items : IsItem(part, items[k])
    BY <2>4, <2>5
  <2> HIDE DEF items
  <2>8. QED
    BY <2>4, <2>6, <2>7, PartKept
<1>3. CASE RemoveItem
  <2>1. PICK part \in Parts : \E id \in DOMAIN after[part] :
          after' = [after EXCEPT ![part] = [i \in DOMAIN @ \ {id} |-> @[i]]]
    BY <1>3 DEF RemoveItem
  <2>2. PICK id \in DOMAIN after[part] : after' = [after EXCEPT ![part] = [i \in DOMAIN @ \ {id} |-> @[i]]]
    BY <2>1
  <2>3. part \in DOMAIN Fields /\ part \notin {"flow", "layout"}
    BY PartsAndFields DEF Parts
  <2> DEFINE old == after[part]
             items == [i \in DOMAIN old \ {id} |-> old[i]]
  <2>4. \A k \in DOMAIN old : IsItem(part, old[k])
    BY <2>3, PartType
  <2>5. after' = [after EXCEPT ![part] = items]
    BY <1>0, <2>2, <2>3
  <2>6. items = [k \in DOMAIN items |-> items[k]] /\ \A k \in DOMAIN items : IsItem(part, items[k])
    BY <2>4
  <2> HIDE DEF items
  <2>7. QED
    BY <2>3, <2>5, <2>6, PartKept
<1>4. QED
  BY <1>1, <1>2, <1>3

\* Every step keeps the invariant.
LEMMA ReviewStep == ReviewInv /\ [Next]_vars => ReviewInv'
<1> SUFFICES ASSUME ReviewInv, [Next]_vars PROVE ReviewInv'
  OBVIOUS
<1>1. CASE SetField \/ AddItem \/ RemoveItem
  <2>1. phase = "editing" /\ UNCHANGED <<phase, invocation, report, exitCode, written>>
    BY <1>1 DEF SetField, AddItem, RemoveItem, Editing
  <2>2. IsDefinition(after')
    BY <1>1, EditingKeepsType DEF ReviewInv
  <2>3. QED
    BY <2>1, <2>2 DEF ReviewInv
<1>2. CASE runCLI
  <2>1. PICK i \in Invocations :
          /\ invocation' = i /\ report' = Outcome(i, parseArguments(i.arguments)).report
          /\ exitCode' = Outcome(i, parseArguments(i.arguments)).exitCode
    BY <1>2 DEF runCLI
  <2>2. phase = "editing" /\ phase' \in {"reported", "ended"} /\ UNCHANGED <<after, edits, written>>
    BY <1>2 DEF runCLI
  <2>3. Line' = parseArguments(i.arguments)
    BY <2>1 DEF Line
  <2>4. Outcome(invocation, Line)' = Outcome(i, parseArguments(i.arguments))
    BY <2>1, <2>2, <2>3 DEF Outcome, execute, Validate, Diff, Simulate, Check, Difference, Definition
  <2>5. QED
    BY <2>1, <2>2, <2>4 DEF ReviewInv
<1>3. CASE WriteReport
  <2>1. phase = "reported" /\ phase' = "ended" /\ UNCHANGED <<after, edits, invocation, report>>
        /\ (written' => UNCHANGED exitCode)
    BY <1>3 DEF WriteReport, ReviewInv
  <2>2. Outcome(invocation, Line)' = Outcome(invocation, Line)
    BY <2>1 DEF Line, Outcome, execute, Validate, Diff, Simulate, Check, Difference, Definition
  <2>3. QED
    BY <2>1, <2>2 DEF ReviewInv
<1>4. CASE UNCHANGED vars
  <2>1. Outcome(invocation, Line)' = Outcome(invocation, Line)
    BY <1>4 DEF vars, Line, Outcome, execute, Validate, Diff, Simulate, Check, Difference, Definition
  <2>2. QED
    BY <1>4, <2>1 DEF vars, ReviewInv
<1>5. QED
  BY <1>1, <1>2, <1>3, <1>4 DEF Next
\* The report is the outcome of the command line for the definition at hand.
THEOREM ReviewInvariant == Spec => []ReviewInv
<1>1. QED
  BY ReviewInit, ReviewStep, PTL DEF Spec

\* Two definitions between which the difference finds no change of behaviour are executed alike.
THEOREM VisualChangesAreSafe == Spec => []VisualChangesKeepBehaviour
<1>1. ReviewInv => VisualChangesKeepBehaviour
  <2>1. SUFFICES ASSUME ReviewInv, ~diffFlowDefinitions(Before, after).behaviorChanged
                 PROVE  Executed(Before) = Executed(after)
    BY DEF VisualChangesKeepBehaviour
  <2>2. IsDefinition(Before) /\ IsDefinition(after)
    BY ReviewAssumed, <2>1 DEF ReviewAssumption, ReviewInv
  <2>3. Quiet(Before, after, "behavioral")
    BY <2>1, <2>2, BehaviorChanged
  <2>4. QED
    BY <2>2, <2>3, QuietIsExecutedAlike
<1>2. QED
  BY <1>1, ReviewInvariant, PTL

\* A change of behaviour is one in both directions, and a difference is found exactly when there is one.
THEOREM RevertsAreSeen == Spec => []RevertIsSeen
<1>1. ReviewInv => RevertIsSeen
  <2>1. SUFFICES ASSUME ReviewInv
                 PROVE  /\ diffFlowDefinitions(Before, after).behaviorChanged = diffFlowDefinitions(after, Before).behaviorChanged
                        /\ diffFlowDefinitions(Before, after).hasChanges = (Before # after)
    BY DEF RevertIsSeen
  <2>2. IsDefinition(Before) /\ IsDefinition(after)
    BY ReviewAssumed, <2>1 DEF ReviewAssumption, ReviewInv
  <2>3. Quiet(Before, after, "behavioral") <=> Quiet(after, Before, "behavioral")
    BY QuietIsSymmetric
  <2>4. /\ diffFlowDefinitions(Before, after).behaviorChanged = ~Quiet(Before, after, "behavioral")
        /\ diffFlowDefinitions(after, Before).behaviorChanged = ~Quiet(after, Before, "behavioral")
    BY <2>2, BehaviorChanged
  <2>5. diffFlowDefinitions(Before, after).hasChanges = (Before # after)
    BY <2>2, HasChanges
  <2>6. (~Quiet(Before, after, "behavioral")) = (~Quiet(after, Before, "behavioral"))
    BY <2>3
  <2>7. QED
    BY <2>4, <2>5, <2>6
<1>2. QED
  BY <1>1, ReviewInvariant, PTL

\* Exit code 0 and the SARIF log give the same verdict, and it is true of the definitions.
THEOREM ReportsAreSound == Spec => []ReportIsSound
<1>1. ReviewInv => GateIsSound
  <2>1. SUFFICES ASSUME ReviewInv, phase = "ended", exitCode = 0, written,
                        report.command \in {"validate", "simulate", "check"}
                 PROVE  LET candidate == Definition(Line.positionals[1])
                            threshold == IF report.command = "check" THEN report.failOn ELSE "none"
                        IN  /\ IssuesOf(candidate) \subseteq WarningCodes
                            /\ threshold # "none" => Keeps(Definition(flag(Line, "baseline")), candidate)
                            /\ threshold = "behavioral" => Executed(Definition(flag(Line, "baseline"))) = Executed(candidate)
    BY DEF GateIsSound
  <2>2. IsDefinition(after) /\ report = Outcome(invocation, Line).report /\ Outcome(invocation, Line).exitCode = 0
    BY <2>1 DEF ReviewInv
  <2> DEFINE p == Line
             i == invocation
             r == report
  <2>3. r = Outcome(i, p).report /\ Outcome(i, p).exitCode = 0 /\ r.command \in {"validate", "simulate", "check"}
    BY <2>1, <2>2
  <2> HIDE DEF p, i, r
  <2>4. LET candidate == Definition(p.positionals[1])
            threshold == IF r.command = "check" THEN r.failOn ELSE "none"
        IN  /\ IssuesOf(candidate) \subseteq WarningCodes
            /\ threshold # "none" => Keeps(Definition(flag(p, "baseline")), candidate)
            /\ threshold = "behavioral" => Executed(Definition(flag(p, "baseline"))) = Executed(candidate)
    BY <2>2, <2>3, OutcomeIsSound
  <2>5. QED
    BY <2>4 DEF p, r
<1>2. ReviewInv => SarifAgrees
  <2>1. SUFFICES ASSUME ReviewInv, phase # "editing", report # NoReport
                 PROVE  /\ HasError(resultsFor(report)) = Rejected(report)
                        /\ HasError(SarifRules(report)) = Rejected(report)
    BY DEF SarifAgrees, HasError, Rejected
  <2>2. report = Outcome(invocation, Line).report
    BY <2>1 DEF ReviewInv
  <2>3. QED
    BY <2>1, <2>2, OutcomeAgrees
<1>3. ReviewInv => ReportIsSound
  BY <1>1, <1>2 DEF ReportIsSound
<1>4. QED
  BY <1>3, ReviewInvariant, PTL
===============================================================================
