-------------------------------- MODULE MCEditor --------------------------------
(***************************************************************************)
(* The editor on a handful of identifiers and a short history.             *)
(***************************************************************************)
EXTENDS Editor, TLC

Document(nodes, edges) ==
  [nodes |-> [id \in DOMAIN nodes |-> [type |-> nodes[id], locked |-> FALSE, text |-> 0, position |-> 0]],
   edges |-> [id \in DOMAIN edges |-> [source |-> edges[id][1], target |-> edges[id][2], priority |-> 1,
                                       isDefault |-> FALSE]]]

\* One node; a whole flow; an edge that leaves an end and leads nowhere; an edge from nowhere to itself.
Documents ==
  {Document(1 :> "decision", <<>>),
   Document(1 :> "decision" @@ 2 :> "end", 3 :> <<1, 2>>),
   Document(1 :> "end", 2 :> <<1, 3>>),
   Document(<<>>, 1 :> <<2, 2>>)}
===============================================================================
