--------------------------------- MODULE Editor ---------------------------------
(***************************************************************************)
(* The commands of the editor: the definition, the history and the         *)
(* selection of flow-store.ts, the mode, shortcuts and clicks of           *)
(* EditorClient.tsx, and the fields of Inspector.tsx.                      *)
(*                                                                         *)
(* Every command is one task of the browser.  What makes them interact is  *)
(* that an identifier is kept (as selected, as the source of a connection, *)
(* or in the answer of the copilot) while undo, redo and delete change     *)
(* which nodes there are.                                                  *)
(***************************************************************************)
EXTENDS Naturals, FiniteSets, Sequences, SequencesExt

CONSTANTS
  Types,       \* the types of nodes
  Foreign,     \* the documents that are loaded, imported, written as text or restored
  MaxIds,      \* bound: identifiers of nodes and edges
  Depth,       \* the 100 definitions kept in past and in future
  MaxCommands  \* bound: commands of the user

ASSUME EditorAssumption ==
  /\ Types \subseteq {"task", "decision", "trigger", "end", "group"}
  /\ {Depth, MaxIds} \subseteq Nat \ {0} /\ MaxCommands \in Nat

VARIABLES
  definition,      \* document.definition: nodes by identifier, and edges by identifier
  past, future,
  selectedNodeId,
  selectedNodeIds, \* in the order in which they were marked
  selectedEdgeId,
  connectMode, connectionSourceId,
  used,            \* a new identifier is past this one: nothing within reach ever mentioned it
  commands

selection == <<selectedNodeId, selectedNodeIds, selectedEdgeId>>
connection == <<connectMode, connectionSourceId>>
vars == <<definition, past, future, selection, connection, used, commands>>

None == 0           \* undefined
Ids  == 1..MaxIds

Node == [type : Types, locked : BOOLEAN, text : {0, 1}, position : {0, 1}]
Edge == [source : Ids, target : Ids, priority : Nat, isDefault : BOOLEAN]

IsDefinition(d) ==
  /\ d = [nodes |-> d.nodes, edges |-> d.edges]
  /\ DOMAIN d.nodes \subseteq Ids /\ d.nodes \in [DOMAIN d.nodes -> Node]
  /\ DOMAIN d.edges \subseteq Ids /\ d.edges \in [DOMAIN d.edges -> Edge]

\* The schema is all that is asked of a document: its edges may lead nowhere, or leave an end.
ASSUME DocumentsAssumption == \A d \in Foreign : IsDefinition(d)

Nodes == DOMAIN definition.nodes
Edges == DOMAIN definition.edges

With(f, id, value)    == [x \in DOMAIN f \cup {id} |-> IF x = id THEN value ELSE f[x]]
Restricted(f, domain) == [x \in domain |-> f[x]]
Last100(s)            == SubSeq(s, IF Len(s) > Depth THEN Len(s) - Depth + 1 ELSE 1, Len(s))
First100(s)           == SubSeq(s, 1, IF Len(s) > Depth THEN Depth ELSE Len(s))

-------------------------------------------------------------------------------
(* The history.                                                            *)

ForgetsTheFuture(d) ==     \* mutant: the future is kept when a new definition is made
  /\ definition' = d
  /\ past' = Last100(Append(past, definition))
  /\ UNCHANGED future

changedState(d) ==
  /\ definition' = d
  /\ past' = Last100(Append(past, definition))
  /\ future' = <<>>

NoSelection == selectedNodeId' = None /\ selectedNodeIds' = <<>> /\ selectedEdgeId' = None

Command == commands < MaxCommands /\ commands' = commands + 1

undo ==
  /\ Command /\ past # <<>>
  /\ definition' = Last(past)
  /\ past' = Front(past)
  /\ future' = First100(<<definition>> \o future)
  /\ NoSelection /\ UNCHANGED <<connection, used>>

redo ==
  /\ Command /\ future # <<>>
  /\ definition' = Head(future)
  /\ past' = Last100(Append(past, definition))
  /\ future' = Tail(future)
  /\ NoSelection /\ UNCHANGED <<connection, used>>

\* The identifiers a definition mentions: those of its edges' ends need not be nodes.
Ends(edge) == {edge.source, edge.target}
Names(d)   == DOMAIN d.nodes \cup DOMAIN d.edges \cup UNION {Ends(d.edges[e]) : e \in DOMAIN d.edges}
Given(last, d) == Max({last} \cup Names(d))

loadDocument ==
  /\ Command
  /\ \E d \in Foreign : definition' = d /\ used' = Given(used, d)
  /\ past' = <<>> /\ future' = <<>>
  /\ NoSelection /\ UNCHANGED connection

\* replaceDefinition and applyRestoredVersion, of an import, a text or a version.
replaceDefinition ==
  /\ Command
  /\ \E d \in Foreign : changedState(d) /\ used' = Given(used, d)
  /\ NoSelection /\ UNCHANGED connection

-------------------------------------------------------------------------------
(* Commands on the definition.                                             *)

Fresh == {used + 1} \cap Ids
NewNode(type) == [type |-> type, locked |-> FALSE, text |-> 0, position |-> 0]

addNode(type) ==
  /\ Command
  /\ \E id \in Fresh :
       /\ changedState([definition EXCEPT !.nodes = With(@, id, NewNode(type))])
       /\ selectedNodeId' = id /\ selectedNodeIds' = <<id>> /\ selectedEdgeId' = None
       /\ used' = id
  /\ UNCHANGED connection

\* A new name or description: the definition is another one, and the same to every property here.
updateFlowMeta ==
  /\ Command /\ changedState(definition)
  /\ UNCHANGED <<selection, connection, used>>

\* The Inspector edits the node it shows; the three-dimensional scene moves a node that is not locked.
updateNode ==
  /\ Command /\ selectedNodeId \in Nodes
  /\ \E value \in {0, 1} : changedState([definition EXCEPT !.nodes[selectedNodeId].text = value])
  /\ UNCHANGED <<selection, connection, used>>

moveNode(id) ==
  /\ Command /\ ~definition.nodes[id].locked
  /\ \E p \in {0, 1} : changedState([definition EXCEPT !.nodes[id].position = p])
  /\ UNCHANGED <<selection, connection, used>>

toggleNodeLock ==
  /\ Command /\ selectedNodeId \in Nodes
  /\ changedState([definition EXCEPT !.nodes[selectedNodeId].locked = ~@])
  /\ UNCHANGED <<selection, connection, used>>

\* applyLayout leaves the nodes that are locked where they are.
changeLayout ==
  /\ Command
  /\ \E p \in {0, 1} : changedState([definition EXCEPT !.nodes =
       [id \in DOMAIN @ |-> IF @[id].locked THEN @[id] ELSE [@[id] EXCEPT !.position = p]]])
  /\ UNCHANGED <<selection, connection, used>>

\* The copy is shown in the Inspector; what was marked stays marked.
duplicateSelected ==
  /\ Command /\ selectedNodeId \in Nodes
  /\ \E id \in Fresh :
       /\ changedState([definition EXCEPT !.nodes =
            With(@, id, [@[selectedNodeId] EXCEPT !.locked = FALSE])])
       /\ selectedNodeId' = id /\ used' = id
  /\ UNCHANGED <<selectedNodeIds, selectedEdgeId, connection>>

Marked == IF selectedNodeIds # <<>> THEN selectedNodeIds
          ELSE IF selectedNodeId # None THEN <<selectedNodeId>> ELSE <<>>

deleteSelected ==
  /\ Command
  /\ LET out  == ToSet(Marked)
         left == {e \in Edges : Ends(definition.edges[e]) \cap out = {}}
     IN  \/ /\ out # {}
            /\ changedState([nodes |-> Restricted(definition.nodes, Nodes \ out),
                             edges |-> Restricted(definition.edges, left)])
            /\ NoSelection
         \/ /\ out = {} /\ selectedEdgeId # None
            /\ changedState([definition EXCEPT !.edges = Restricted(@, Edges \ {selectedEdgeId})])
            /\ selectedEdgeId' = None /\ UNCHANGED <<selectedNodeId, selectedNodeIds>>
  /\ UNCHANGED <<connection, used>>

AnyEnds(from, to) == from # to      \* mutant: the ends are not looked up

Connectable(from, to) ==
  /\ {from, to} \subseteq Nodes
  /\ definition.nodes[from].type \notin {"group", "end"}
  /\ definition.nodes[to].type \notin {"group", "trigger"}

addEdge(from, to) ==
  \E id \in Fresh :
    LET outgoing == {e \in Edges : definition.edges[e].source = from}
        edge == [source |-> from, target |-> to, priority |-> Cardinality(outgoing) + 1,
                 isDefault |-> from \in Nodes /\ definition.nodes[from].type = "decision" /\ outgoing = {}]
    IN  /\ changedState([definition EXCEPT !.edges = With(@, id, edge)])
        /\ selectedEdgeId' = id /\ selectedNodeId' = None /\ selectedNodeIds' = <<>>
        /\ used' = id

updateEdge ==
  /\ Command /\ selectedEdgeId \in Edges /\ selectedNodeId \notin Nodes
  /\ \E b \in BOOLEAN : changedState([definition EXCEPT !.edges[selectedEdgeId].isDefault = b])
  /\ UNCHANGED <<selection, connection, used>>

-------------------------------------------------------------------------------
(* Commands on the selection, and the clicks.                              *)

selectNode(id) == selectedNodeId' = id /\ selectedNodeIds' = <<id>> /\ selectedEdgeId' = None

Unmarked(marked, id) ==
  LET kept[n \in 0..Len(marked)] ==
        IF n = 0 THEN <<>> ELSE IF marked[n] = id THEN kept[n - 1] ELSE Append(kept[n - 1], marked[n])
  IN  kept[Len(marked)]

toggleNodeSelection(id) ==
  LET next == IF id \in ToSet(Marked) THEN Unmarked(Marked, id) ELSE Append(Marked, id)
  IN  /\ selectedNodeIds' = next
      /\ selectedNodeId' = IF next = <<>> THEN None ELSE Last(next)
      /\ selectedEdgeId' = None

selectEdge(id) ==
  /\ Command
  /\ selectedEdgeId' = id /\ selectedNodeId' = None /\ selectedNodeIds' = <<>>
  /\ UNCHANGED <<definition, past, future, connection, used>>

\* A click on the background.
clearSelection ==
  /\ Command /\ NoSelection
  /\ UNCHANGED <<definition, past, future, connection, used>>

\* The button and the key C.
toggleConnectMode ==
  /\ Command
  /\ connectMode' = ~connectMode /\ connectionSourceId' = None
  /\ UNCHANGED <<definition, past, future, selection, used>>

Escape ==
  /\ Command /\ NoSelection
  /\ connectMode' = FALSE /\ connectionSourceId' = None
  /\ UNCHANGED <<definition, past, future, used>>

handleNodeClick(id, additive) ==
  /\ Command
  /\ \/ /\ ~connectMode
        /\ IF additive THEN toggleNodeSelection(id) ELSE selectNode(id)
        /\ UNCHANGED <<definition, past, future, connection, used>>
     \/ /\ connectMode /\ connectionSourceId = None
        /\ connectionSourceId' = id /\ selectNode(id)
        /\ UNCHANGED <<definition, past, future, connectMode, used>>
     \/ /\ connectMode /\ connectionSourceId # None
        /\ IF connectionSourceId # id /\ Connectable(connectionSourceId, id)
           THEN addEdge(connectionSourceId, id)
           ELSE UNCHANGED <<definition, past, future, selection, used>>
        /\ connectMode' = FALSE /\ connectionSourceId' = None

\* The issues of the validation are those of what is shown, and the copilot looks a node up before it
\* inspects it; but the node of an issue may be the missing end of an edge from it to itself.
Loops == {e \in Edges : definition.edges[e].source = definition.edges[e].target}
Selectable == Nodes \cup {definition.edges[e].source : e \in Loops}

Inspect ==
  /\ Command
  /\ \E id \in Selectable : selectNode(id)
  /\ UNCHANGED <<definition, past, future, connection, used>>

-------------------------------------------------------------------------------

Init ==
  /\ definition \in Foreign
  /\ past = <<>> /\ future = <<>>
  /\ selectedNodeId = None /\ selectedNodeIds = <<>> /\ selectedEdgeId = None
  /\ connectMode = FALSE /\ connectionSourceId = None
  /\ used = Given(1, definition) /\ commands = 0

Next ==
  \/ undo \/ redo \/ loadDocument \/ replaceDefinition
  \/ \E t \in Types : addNode(t)
  \/ updateFlowMeta \/ updateNode \/ toggleNodeLock \/ changeLayout \/ duplicateSelected \/ deleteSelected \/ updateEdge
  \/ \E id \in Nodes : moveNode(id)
  \/ \E id \in Nodes, additive \in BOOLEAN : handleNodeClick(id, additive)
  \/ \E id \in Edges : selectEdge(id)
  \/ clearSelection \/ toggleConnectMode \/ Escape \/ Inspect

Spec == Init /\ [][Next]_vars

-------------------------------------------------------------------------------
(* Properties.                                                             *)

\* What an edge finds at one of its ends.
EndType(d, id) == IF id \in DOMAIN d.nodes THEN d.nodes[id].type ELSE "missing"

\* The documents an edge with these ends may have come with.
Brought(e, edge) == {f \in Foreign : e \in DOMAIN f.edges /\ f.edges[e].source = edge.source
                                                           /\ f.edges[e].target = edge.target}

\* Each end of an edge is at a node with a port for it, or is as a document brought it.
WellFormed(d) ==
  \A e \in DOMAIN d.edges :
    LET edge == d.edges[e]
    IN  /\ \/ EndType(d, edge.source) \notin {"missing", "group", "end"}
           \/ \E f \in Brought(e, edge) : EndType(f, edge.source) = EndType(d, edge.source)
        /\ \/ EndType(d, edge.target) \notin {"missing", "group", "trigger"}
           \/ \E f \in Brought(e, edge) : EndType(f, edge.target) = EndType(d, edge.target)

\* Whatever was undone, redone or deleted between the click on the source of a connection and the
\* click on its target, no definition that is shown or that undo and redo can bring back has an
\* edge without its ends, or at an end its node has no port for, unless a document came with that
\* edge and just that fault: no command makes one or adds one (addEdge, deleteSelected).
GraphClosed ==
  \A d \in {definition} \cup ToSet(past) \cup ToSet(future) : WellFormed(d)

\* The copy that duplicateSelected made is shown, and the nodes it was made from are still marked.
Copied == selectedNodeId = used /\ selectedNodeId \notin ToSet(selectedNodeIds)

\* A node and an edge are never selected together, what is marked is marked once, and all that is
\* selected is there, or is the missing end of an edge to itself.  The Inspector shows the last node
\* marked (flow-store.ts:32), so that Delete takes what it shows, unless that is a copy just made.
OneSelection ==
  /\ selectedEdgeId # None => selectedNodeIds = <<>> /\ selectedEdgeId \in Edges
  /\ \A i, j \in 1..Len(selectedNodeIds) : selectedNodeIds[i] = selectedNodeIds[j] => i = j
  /\ ToSet(selectedNodeIds) \subseteq Selectable /\ selectedNodeId \in Selectable \cup {None}
  /\ selectedNodeIds = <<>> <=> selectedNodeId = None
  /\ selectedNodeIds # <<>> => selectedNodeId = Last(selectedNodeIds) \/ Copied

\* Commands, history and selection leave the editor consistent in whatever order they come.
EditorIsConsistent == GraphClosed /\ OneSelection

\* The history is a line of definitions: undo and redo walk it and lose nothing, though past and
\* future are cut to their limits independently of each other.
Line == INSTANCE Timeline WITH
          line <- past \o <<definition>> \o future, at <- Len(past) + 1
HistoryIsALine == Line!LineSpec
===============================================================================
