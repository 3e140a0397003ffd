----------------------------------- MODULE Scene -----------------------------------
(***************************************************************************)
(* The three-dimensional scene of the editor (FlowScene3D.tsx): nodes and  *)
(* links are objects of three-forcegraph, which makes them anew some       *)
(* frames after the flow or the look of a node has changed.  To draw less, *)
(* InstancedBodies puts the bodies of the nodes, and BatchedLinks the      *)
(* links, into batches of their own and hides the originals                *)
(* (scene-performance.ts); SceneResources keeps the objects of the nodes   *)
(* it has made (scene-resources.ts), and a level of detail makes and hides *)
(* labels with the distance of the camera.                                 *)
(***************************************************************************)
EXTENDS Integers, FiniteSets, FiniteSetsExt

CONSTANTS
  SceneNodes, SceneLinks, NoNode,
  Flows,          \* [nodes, links]: what the flow may consist of
  Statuses,       \* NodeRunStatus
  Budget,         \* labels made, and labels redrawn, in one pass
  LodEvery,       \* frames between two passes of the level of detail
  MaxChanges      \* bound: changes of the flow, its states, the selection and the camera

SceneAssumption == \A f \in Flows : f.nodes \subseteq SceneNodes /\ f.links \subseteq SceneLinks
ASSUME SceneAssumed == SceneAssumption

VARIABLES
  data,           \* the flow on the screen
  nodeStates, selectedId,
  near,           \* node -> its distance from the camera: "far", "label", "sharp"
  threeObj,       \* node -> its object, node.__threeObj, or NoObject
  body,           \* the cache: object -> whether its body is visible; an object is the look it was made for
  label,          \* object -> [visible, scale]; scale 0 until it has a label
  lineObj,        \* link -> "none", "visible" or "hidden": link.__lineObj
  due, cleared,   \* the library has to make its objects again; it has removed them
  batches, hidden, bodiesUp,      \* InstancedBodies: its members with their looks, the objects it hid, whether its meshes hang in the scene
  tubes, linksUp, \* BatchedLinks: its members, whether its mesh hangs in the scene
  rebuildBatches, frame, changes

sceneVars == <<data, nodeStates, selectedId, near, threeObj, body, label, lineObj, due, cleared, batches, hidden, bodiesUp,
          tubes, linksUp, rebuildBatches, frame, changes>>
lots == <<batches, hidden, bodiesUp, tubes, linksUp>>

NoObject == <<>>
Look(n) == <<n, nodeStates[n], n = selectedId>>

SceneInit ==
  /\ data \in Flows /\ nodeStates = [n \in SceneNodes |-> "idle"] /\ selectedId = NoNode /\ near = [n \in SceneNodes |-> "far"]
  /\ threeObj = [n \in SceneNodes |-> NoObject] /\ body = [k \in {} |-> TRUE] /\ label = [k \in {} |-> [visible |-> TRUE, scale |-> 0]]
  /\ lineObj = [l \in SceneLinks |-> "none"] /\ due = TRUE /\ cleared = FALSE
  /\ batches = {} /\ hidden = {} /\ bodiesUp = FALSE /\ tubes = {} /\ linksUp = FALSE
  /\ rebuildBatches = TRUE /\ frame = 0 /\ changes = 0

-------------------------------------------------------------------------------
(* The properties of the component change: the effects of FlowScene3D      *)

Change == changes < MaxChanges /\ changes' = changes + 1

OnlyTheFlow ==      \* mutant: the effect depends on the flow alone
  rebuildBatches' = (rebuildBatches \/ data' # data)

\* The effect that asks for the batches again, and the loop that starts again with it.
BatchesAreDue == rebuildBatches' = TRUE

\* Any edit makes a new definition, with new nodes and links for the library.
ChangeFlow ==
  /\ Change /\ data' \in Flows /\ selectedId' = IF selectedId \in data'.nodes THEN selectedId ELSE NoNode
  /\ threeObj' = [n \in SceneNodes |-> NoObject] /\ lineObj' = [l \in SceneLinks |-> "none"]
  /\ due' = TRUE /\ frame' = 0 /\ BatchesAreDue
  /\ UNCHANGED <<nodeStates, near, body, label, cleared, lots>>

\* A run sets the states of the nodes; the user selects one.
ChangeLook ==
  /\ Change
  /\ \/ \E n \in data.nodes : \E s \in Statuses \ {nodeStates[n]} : nodeStates' = [nodeStates EXCEPT ![n] = s] /\ UNCHANGED selectedId
     \/ selectedId' \in (data.nodes \cup {NoNode}) \ {selectedId} /\ UNCHANGED nodeStates
  /\ UNCHANGED data /\ due' = TRUE /\ frame' = 0 /\ BatchesAreDue
  /\ UNCHANGED <<near, threeObj, body, label, lineObj, cleared, lots>>

MoveCamera ==
  /\ Change /\ near' \in [SceneNodes -> {"far", "label", "sharp"}] \ {near}
  /\ UNCHANGED <<data, nodeStates, selectedId, threeObj, body, label, lineObj, due, cleared, lots, rebuildBatches, frame>>

-------------------------------------------------------------------------------
(* The library                                                             *)

\* It empties its tree, with what others have hung there.
LibraryClears ==
  /\ due /\ due' = FALSE /\ cleared' = TRUE
  /\ threeObj' = [n \in SceneNodes |-> NoObject] /\ lineObj' = [l \in SceneLinks |-> "none"]
  /\ \E gone \in SUBSET {"bodies", "links"} :
       bodiesUp' = (bodiesUp /\ "bodies" \notin gone) /\ linksUp' = (linksUp /\ "links" \notin gone)
  /\ UNCHANGED <<data, nodeStates, selectedId, near, body, label, batches, hidden, tubes, rebuildBatches, frame, changes>>

\* SceneResources.nodeObject: the object made for this look before, or a new one with its body
\* visible and no label.
nodeObjects(made) ==
  /\ body'  = [k \in DOMAIN body \cup made |-> IF k \in DOMAIN body THEN body[k] ELSE TRUE]
  /\ label' = [k \in DOMAIN label \cup made |-> IF k \in DOMAIN label THEN label[k] ELSE [visible |-> TRUE, scale |-> 0]]

LibraryCreates ==
  /\ cleared /\ cleared' = FALSE
  /\ threeObj' = [n \in SceneNodes |-> IF n \in data.nodes THEN Look(n) ELSE NoObject]
  /\ nodeObjects({Look(n) : n \in data.nodes})
  /\ lineObj' = [l \in SceneLinks |-> IF l \in data.links THEN "visible" ELSE "none"]
  /\ UNCHANGED <<data, nodeStates, selectedId, near, due, lots, rebuildBatches, frame, changes>>

-------------------------------------------------------------------------------
(* The loop, once in a frame                                               *)

Listos == {n \in data.nodes : threeObj[n] # NoObject}
Resolved == {l \in data.links : lineObj[l] # "none"}

\* InstancedBodies.sync
SyncBodies ==
  IF data.nodes # {} /\ Listos = {}
  THEN /\ batches' = {} /\ hidden' = {} /\ body' = [k \in DOMAIN body |-> body[k] \/ k \in hidden]
       /\ UNCHANGED bodiesUp
  ELSE LET objects == {threeObj[n] : n \in Listos}
       IN  /\ batches' = {Look(n) : n \in Listos} /\ bodiesUp' = TRUE
           /\ hidden' = hidden \cup {k \in objects : body[k]}
           /\ body' = [k \in DOMAIN body |-> body[k] /\ k \notin objects]

\* BatchedLinks.sync: without a link that is ready the batch stays as it is.
SyncLinks ==
  IF Resolved = {} THEN UNCHANGED <<tubes, linksUp, lineObj>>
  ELSE /\ tubes' = Resolved /\ linksUp' = TRUE
       /\ lineObj' = [l \in SceneLinks |-> IF l \in Resolved THEN "hidden" ELSE lineObj[l]]

Synced == (data.nodes = {} \/ Listos # {}) /\ (Resolved # {} \/ data.links = {})

Rebuild == SyncBodies /\ SyncLinks /\ rebuildBatches' = ~Synced

StaysDown(up, members) == up     \* mutant: nobody hangs it up
Hung(up, members) == up \/ members # {}

\* updatePositions of both: a mesh that has been dropped is hung up again, and links that are
\* visible again are hidden.
Refresh ==
  /\ bodiesUp' = Hung(bodiesUp, batches) /\ linksUp' = Hung(linksUp, tubes)
  /\ lineObj' = [l \in SceneLinks |-> IF l \in tubes /\ lineObj[l] = "visible" THEN "hidden" ELSE lineObj[l]]
  /\ UNCHANGED <<batches, hidden, body, tubes, rebuildBatches>>

Shown(n) == n = selectedId \/ near[n] # "far"
Scale(n) == IF near[n] = "sharp" THEN 3 ELSE 1
UpTo(limit, nodes) == kSubset(IF Cardinality(nodes) < limit THEN Cardinality(nodes) ELSE limit, nodes)
HasLabel(n) == label[threeObj[n]].scale # 0

Labelled(built) == built \cup {n \in Listos : HasLabel(n)}

\* upgradeLabel draws the label of a node again at another resolution.
upgradeLabel(n, redrawn, scale) == IF n \in redrawn THEN Scale(n) ELSE scale

\* applyLevelOfDetail.  Which nodes come first, when there are more than the budget, is their order.
LevelOfDetail ==
  \E built \in UpTo(Budget, {n \in Listos : Shown(n) /\ ~HasLabel(n)}) :
    LET scaleOf(n) == IF n \in built THEN 1 ELSE label[threeObj[n]].scale
    IN  \E redrawn \in UpTo(Budget, {n \in Labelled(built) : Shown(n) /\ scaleOf(n) # Scale(n)}) :
          label' = [k \in DOMAIN label |->
            IF \E n \in Labelled(built) : threeObj[n] = k
            THEN [visible |-> Shown(k[1]), scale |-> upgradeLabel(k[1], redrawn, scaleOf(k[1]))]
            ELSE label[k]]

Frame ==
  /\ IF rebuildBatches THEN Rebuild ELSE Refresh
  /\ frame' = (frame + 1) % LodEvery
  /\ IF frame' = 0 THEN LevelOfDetail ELSE UNCHANGED label
  /\ UNCHANGED <<data, nodeStates, selectedId, near, threeObj, due, cleared, changes>>

SceneNext == ChangeFlow \/ ChangeLook \/ MoveCamera \/ LibraryClears \/ LibraryCreates \/ Frame

\* The browser draws frames, and the library carries out what it has to.
FairSpec ==
  SceneInit /\ [][SceneNext]_sceneVars /\ WF_sceneVars(Frame) /\ WF_sceneVars(LibraryClears) /\ WF_sceneVars(LibraryCreates)

-------------------------------------------------------------------------------
\* What the batches show is the flow as it is now, as soon as the loop has stopped asking for them:
\* every node with its state and selection, no other node, and every link.
BatchesAreCurrent ==
  ~rebuildBatches => batches = {Look(n) : n \in data.nodes} /\ (data.links # {} => tubes = data.links)

\* However the steps of the library fall between the frames, no node stays away (its body hidden
\* and no batch that draws it) and no link is missing or drawn twice, once nothing changes any more.
NothingIsLost ==
  <>[](/\ \A n \in data.nodes : \/ bodiesUp /\ Look(n) \in batches
                                \/ threeObj[n] # NoObject /\ body[threeObj[n]]
       /\ \A l \in data.links : lineObj[l] = "visible" \/ (linksUp /\ l \in tubes)
       /\ \A l \in data.links : ~(lineObj[l] = "visible" /\ linksUp /\ l \in tubes))

\* Whatever the budget, in the end the label of every node near enough is there, at the resolution
\* of its distance, the others are hidden, and the selected node keeps its label at any distance.
LabelsFollowTheCamera ==
  <>[](\A n \in data.nodes :
         /\ threeObj[n] # NoObject
         /\ LET l == label[threeObj[n]]
            IN  IF Shown(n) THEN l.visible /\ l.scale = Scale(n) ELSE l.scale = 0 \/ ~l.visible)

\* In the end the screen shows the flow, bodies, links and labels.
ScreenCatchesUp == NothingIsLost /\ LabelsFollowTheCamera
===============================================================================
