------------------------------ MODULE EditorProofs ------------------------------
(***************************************************************************)
(* Proofs about the editor, for any types of nodes and any limits: the     *)
(* commands keep every definition within reach closed, whatever is         *)
(* selected, and the history is the line of Timeline.                      *)
(*                                                                         *)
(* Each command does one of five things to the history (HistoryStep): it   *)
(* leaves it alone, empties it, undoes, redoes, or makes a definition that *)
(* is safe.  What the history promises follows from that alone.            *)
(*                                                                         *)
(* The last part is about the scene that draws the flow: what its batches  *)
(* show is current whatever the library does between two frames.           *)
(***************************************************************************)
EXTENDS Editor, Scene, RunStream, SequenceTheorems, FiniteSetTheorems, WellFoundedInduction, TLAPS

NodeMaps    == UNION {[ids -> Node] : ids \in SUBSET Ids}
EdgeMaps    == UNION {[ids -> Edge] : ids \in SUBSET Ids}
Definitions == [nodes : NodeMaps, edges : EdgeMaps]

SelectionOK  == {selectedNodeId, selectedEdgeId} \subseteq Ids \cup {None} /\ selectedNodeIds \in Seq(Ids)
ConnectionOK == connectMode \in BOOLEAN /\ connectionSourceId \in Ids \cup {None}

TypeOK ==
  /\ definition \in Definitions /\ past \in Seq(Definitions) /\ future \in Seq(Definitions)
  /\ SelectionOK /\ ConnectionOK
  /\ used \in Ids /\ commands \in 0..MaxCommands

Reach == {definition} \cup ToSet(past) \cup ToSet(future)

\* What makes a new identifier new: no definition within reach mentions one past the last one given.
OldNames == \A d \in Reach : Names(d) \subseteq 1..used

\* What is cut from past and future is never within reach: together they fit in one limit.
ShortHistory == Len(past) + Len(future) <= Depth

IInv == TypeOK /\ OldNames /\ ShortHistory /\ GraphClosed /\ OneSelection

Safe(d, last) == d \in Definitions /\ WellFormed(d) /\ Names(d) \subseteq 1..last

HistoryStep ==
  \/ UNCHANGED <<definition, past, future>>
  \/ past' = <<>> /\ future' = <<>> /\ Safe(definition', used')
  \/ undo
  \/ redo
  \/ changedState(definition') /\ Safe(definition', used')

-------------------------------------------------------------------------------
(* What is left when a node is no longer marked.                           *)

\* A set of numbers that is not empty has a least one.
LEMMA LeastNumber ==
  ASSUME NEW T \in SUBSET Nat, T # {}
  PROVE  \E n \in T : \A m \in T : n <= m
<1>1. PICK n \in T : \A m \in T : <<m, n>> \notin OpToRel(<, Nat)
  BY NatLessThanWellFounded, WFMin, Zenon
<1>2. \A m \in T : ~(m < n)
  BY <1>1 DEF OpToRel
<1> QED
  BY <1>2

\* The filter of toggleNodeSelection on the first n nodes that are marked.
Kept(marked, id, n, kept) ==
  kept = [m \in 0..n |-> IF m = 0 THEN <<>> ELSE IF marked[m] = id THEN kept[m - 1]
                         ELSE Append(kept[m - 1], marked[m])]

\* The filter is defined for a list of any length.
LEMMA KeptExists ==
  ASSUME NEW marked, NEW id, NEW n \in Nat
  PROVE  \E kept : Kept(marked, id, n, kept)
<1> DEFINE T == {m \in Nat : ~ \E kept : Kept(marked, id, m, kept)}
<1> SUFFICES ASSUME T # {} PROVE FALSE
  OBVIOUS
<1>1. PICK m \in T : \A k \in T : m <= k
  BY LeastNumber, Zenon
<1>2. CASE m = 0
  <2>1. Kept(marked, id, 0, [k \in 0..0 |-> <<>>])
    BY DEF Kept
  <2> QED
    BY <1>1, <1>2, <2>1
<1>3. CASE m # 0
  <2>1. m - 1 \in Nat /\ m - 1 \notin T
    BY <1>1, <1>3
  <2>2. PICK kept : Kept(marked, id, m - 1, kept)
    BY <2>1
  <2> DEFINE more == [k \in 0..m |-> IF k < m THEN kept[k] ELSE IF marked[m] = id THEN kept[m - 1]
                                     ELSE Append(kept[m - 1], marked[m])]
  <2>3. \A k \in 0..m - 1 : kept[k] = IF k = 0 THEN <<>> ELSE IF marked[k] = id THEN kept[k - 1]
                                      ELSE Append(kept[k - 1], marked[k])
    BY <2>2 DEF Kept
  <2>4. \A k \in 1..m : more[k - 1] = kept[k - 1]
    BY <1>1
  <2>5. \A k \in 0..m : more[k] = IF k = 0 THEN <<>> ELSE IF marked[k] = id THEN more[k - 1]
                                  ELSE Append(more[k - 1], marked[k])
    BY <1>1, <1>3, <2>3, <2>4
  <2>6. Kept(marked, id, m, more)
    BY <2>5 DEF Kept
  <2> QED
    BY <1>1, <2>6
<1> QED
  BY <1>2, <1>3

\* The filter at one more node.
LEMMA KeptUnfolds ==
  ASSUME NEW marked, NEW id, NEW n \in Nat, NEW kept, Kept(marked, id, n, kept)
  PROVE  /\ kept[0] = <<>>
         /\ \A m \in 1..n : kept[m] = IF marked[m] = id THEN kept[m - 1] ELSE Append(kept[m - 1], marked[m])
<1> DEFINE one == [m \in 0..n |-> IF m = 0 THEN <<>> ELSE IF marked[m] = id THEN kept[m - 1]
                                  ELSE Append(kept[m - 1], marked[m])]
<1>1. kept = one
  BY DEF Kept
<1>2. /\ one[0] = <<>>
      /\ \A m \in 1..n : one[m] = IF marked[m] = id THEN kept[m - 1] ELSE Append(kept[m - 1], marked[m])
  OBVIOUS
<1> HIDE DEF one
<1> QED
  BY <1>1, <1>2

Once(s) == \A i, j \in 1..Len(s) : s[i] = s[j] => i = j

\* A node that is not marked is marked once when it is added.
LEMMA OnceMore ==
  ASSUME NEW S, NEW s \in Seq(S), NEW x \in S, Once(s), \A i \in 1..Len(s) : s[i] # x
  PROVE  Append(s, x) \in Seq(S) /\ Once(Append(s, x))
<1>1. /\ Append(s, x) \in Seq(S) /\ Len(Append(s, x)) = Len(s) + 1 /\ Append(s, x)[Len(s) + 1] = x
      /\ \A i \in 1..Len(s) : Append(s, x)[i] = s[i]
  BY AppendProperties
<1>2. Len(s) \in Nat
  OBVIOUS
<1>3. ASSUME NEW i \in 1..Len(s) + 1, NEW j \in 1..Len(s) + 1, Append(s, x)[i] = Append(s, x)[j] PROVE i = j
  <2>1. CASE i \in 1..Len(s) /\ j \in 1..Len(s)
    BY <1>1, <1>3, <2>1 DEF Once
  <2>2. CASE ~(i \in 1..Len(s) /\ j \in 1..Len(s))
    BY <1>1, <1>2, <1>3, <2>2
  <2> QED
    BY <2>1, <2>2
<1> QED
  BY <1>1, <1>3 DEF Once

\* Removing a mark gives a list of the other nodes that were marked, and marks none of them twice.
LEMMA UnmarkedProperties ==
  ASSUME NEW S, NEW marked \in Seq(S), NEW id, Once(marked)
  PROVE  /\ Unmarked(marked, id) \in Seq(S)
         /\ Once(Unmarked(marked, id))
         /\ \A i \in 1..Len(Unmarked(marked, id)) : \E j \in 1..Len(marked) : Unmarked(marked, id)[i] = marked[j]
<1> DEFINE f == CHOOSE kept : Kept(marked, id, Len(marked), kept)
<1>1. Len(marked) \in Nat /\ \A i \in 1..Len(marked) : marked[i] \in S
  BY ElementOfSeq
<1>2. Kept(marked, id, Len(marked), f)
  BY <1>1, KeptExists
<1>3. Unmarked(marked, id) = f[Len(marked)]
  BY DEF Unmarked, Kept
<1> HIDE DEF f
<1> DEFINE Good(n) == /\ f[n] \in Seq(S) /\ Once(f[n])
                      /\ \A i \in 1..Len(f[n]) : \E j \in 1..n : f[n][i] = marked[j]
           T == {n \in 0..Len(marked) : ~Good(n)}
<1>4. f[0] = <<>> /\ \A n \in 1..Len(marked) : f[n] = IF marked[n] = id THEN f[n - 1] ELSE Append(f[n - 1], marked[n])
  BY <1>1, <1>2, KeptUnfolds
<1>5. Good(0)
  BY <1>4 DEF Once
<1>6. ASSUME NEW n \in 1..Len(marked), Good(n - 1) PROVE Good(n)
  <2>1. CASE marked[n] = id
    BY <1>1, <1>4, <1>6, <2>1
  <2>2. CASE marked[n] # id
    <3>1. f[n] = Append(f[n - 1], marked[n]) /\ marked[n] \in S
      BY <1>1, <1>4, <2>2
    <3>2. f[n - 1] \in Seq(S) /\ Once(f[n - 1]) /\ \A i \in 1..Len(f[n - 1]) : \E j \in 1..n - 1 : f[n - 1][i] = marked[j]
      BY <1>6
    <3>3. \A i \in 1..Len(f[n - 1]) : f[n - 1][i] # marked[n]
      BY <3>2, <1>1 DEF Once
    <3>4. f[n] \in Seq(S) /\ Once(f[n])
      BY <3>1, <3>2, <3>3, OnceMore
    <3>5. /\ Len(f[n - 1]) \in Nat /\ Len(f[n]) = Len(f[n - 1]) + 1 /\ f[n][Len(f[n - 1]) + 1] = marked[n]
          /\ \A i \in 1..Len(f[n - 1]) : f[n][i] = f[n - 1][i]
      BY <3>1, <3>2, AppendProperties
    <3>6. ASSUME NEW i \in 1..Len(f[n]) PROVE \E j \in 1..n : f[n][i] = marked[j]
      <4>1. CASE i \in 1..Len(f[n - 1])
        BY <3>2, <3>5, <4>1
      <4>2. CASE i \notin 1..Len(f[n - 1])
        BY <3>5, <4>2
      <4> QED
        BY <4>1, <4>2
    <3> QED
      BY <3>4, <3>6
  <2> QED
    BY <2>1, <2>2
<1>7. T = {}
  <2> SUFFICES ASSUME T # {} PROVE FALSE
    OBVIOUS
  <2>1. T \in SUBSET Nat
    OBVIOUS
  <2> HIDE DEF Good
  <2>2. PICK n \in T : \A m \in T : n <= m
    BY <2>1, LeastNumber, Zenon
  <2>3. n # 0 /\ n \in 1..Len(marked) /\ n - 1 \in 0..Len(marked)
    BY <1>1, <1>5, <2>2
  <2>4. n - 1 \notin T
    BY <2>2, <2>3
  <2> QED
    BY <1>6, <2>2, <2>3, <2>4
<1> QED
  BY <1>1, <1>3, <1>7

-------------------------------------------------------------------------------
(* Definitions and what a command makes of one.                            *)

\* A definition has nodes and edges by identifier, and is known by them.
LEMMA DefinitionParts ==
  ASSUME NEW d
  PROVE  d \in Definitions <=> IsDefinition(d)
<1>1. \A f : f \in NodeMaps <=> DOMAIN f \subseteq Ids /\ f \in [DOMAIN f -> Node]
  BY DEF NodeMaps
<1>2. \A f : f \in EdgeMaps <=> DOMAIN f \subseteq Ids /\ f \in [DOMAIN f -> Edge]
  BY DEF EdgeMaps
<1> QED
  BY <1>1, <1>2 DEF Definitions, IsDefinition

\* What a safe definition is made of, and whom its nodes and edges mention.
LEMMA SafeParts ==
  ASSUME NEW d, NEW last, Safe(d, last)
  PROVE  /\ d = [nodes |-> d.nodes, edges |-> d.edges]
         /\ DOMAIN d.nodes \subseteq Ids /\ d.nodes \in [DOMAIN d.nodes -> Node]
         /\ DOMAIN d.edges \subseteq Ids /\ d.edges \in [DOMAIN d.edges -> Edge]
         /\ WellFormed(d)
         /\ DOMAIN d.nodes \subseteq 1..last /\ DOMAIN d.edges \subseteq 1..last
         /\ \A x \in DOMAIN d.edges : d.edges[x].source \in 1..last /\ d.edges[x].target \in 1..last
<1>1. IsDefinition(d) /\ WellFormed(d) /\ Names(d) \subseteq 1..last
  BY DefinitionParts DEF Safe
<1>2. DOMAIN d.nodes \subseteq Names(d) /\ DOMAIN d.edges \subseteq Names(d)
      /\ \A x \in DOMAIN d.edges : d.edges[x].source \in Names(d) /\ d.edges[x].target \in Names(d)
  BY DEF Names, Ends
<1> QED
  BY <1>1, <1>2 DEF IsDefinition

\* A definition is safe when its nodes, its edges and their ends are as they should.
LEMMA PartsAreSafe ==
  ASSUME NEW d, NEW last, IsDefinition(d), WellFormed(d),
         DOMAIN d.nodes \subseteq 1..last, DOMAIN d.edges \subseteq 1..last,
         \A x \in DOMAIN d.edges : d.edges[x].source \in 1..last /\ d.edges[x].target \in 1..last
  PROVE  Safe(d, last)
<1>1. Names(d) \subseteq 1..last
  BY DEF Names, Ends
<1> QED
  BY <1>1, DefinitionParts DEF Safe

\* A definition whose edges were in a closed one, and find at their ends what they found there, is
\* closed.
LEMMA StillClosed ==
  ASSUME NEW d, NEW e, WellFormed(d),
         \A x \in DOMAIN e.edges :
           /\ x \in DOMAIN d.edges
           /\ e.edges[x].source = d.edges[x].source /\ e.edges[x].target = d.edges[x].target
           /\ EndType(e, d.edges[x].source) = EndType(d, d.edges[x].source)
           /\ EndType(e, d.edges[x].target) = EndType(d, d.edges[x].target)
  PROVE  WellFormed(e)
<1> SUFFICES ASSUME NEW x \in DOMAIN e.edges
             PROVE  /\ \/ EndType(e, e.edges[x].source) \notin {"missing", "group", "end"}
                       \/ \E f \in Brought(x, e.edges[x]) : EndType(f, e.edges[x].source) = EndType(e, e.edges[x].source)
                    /\ \/ EndType(e, e.edges[x].target) \notin {"missing", "group", "trigger"}
                       \/ \E f \in Brought(x, e.edges[x]) : EndType(f, e.edges[x].target) = EndType(e, e.edges[x].target)
  BY DEF WellFormed
<1>1. Brought(x, e.edges[x]) = Brought(x, d.edges[x])
  BY DEF Brought
<1> QED
  BY <1>1 DEF WellFormed

\* A command that changes one node, and not its type, is safe.
LEMMA NodeChangeIsSafe ==
  ASSUME NEW d, NEW last, Safe(d, last), NEW id \in DOMAIN d.nodes,
         NEW piece \in Node, piece.type = d.nodes[id].type
  PROVE  Safe([d EXCEPT !.nodes = [@ EXCEPT ![id] = piece]], last)
<1> DEFINE e == [d EXCEPT !.nodes = [@ EXCEPT ![id] = piece]]
<1>1. /\ d = [nodes |-> d.nodes, edges |-> d.edges]
      /\ DOMAIN d.nodes \subseteq Ids /\ d.nodes \in [DOMAIN d.nodes -> Node]
      /\ DOMAIN d.edges \subseteq Ids /\ d.edges \in [DOMAIN d.edges -> Edge]
      /\ WellFormed(d)
  BY SafeParts
<1>2. e = [nodes |-> [d.nodes EXCEPT ![id] = piece], edges |-> d.edges]
  BY <1>1
<1> HIDE DEF e
<1>3. e.nodes = [d.nodes EXCEPT ![id] = piece] /\ e.edges = d.edges /\ DOMAIN e.nodes = DOMAIN d.nodes
  BY <1>1, <1>2
<1>4. IsDefinition(e)
  BY <1>1, <1>2, <1>3 DEF IsDefinition
<1>5. \A x : EndType(e, x) = EndType(d, x)
  BY <1>1, <1>3 DEF EndType
<1>6. WellFormed(e)
  BY <1>1, <1>3, <1>5, StillClosed
<1> QED
  BY <1>3, <1>4, <1>6, SafeParts, PartsAreSafe DEF e

\* A command that adds a node under an identifier that is new is safe.
LEMMA NewNodeIsSafe ==
  ASSUME NEW d, NEW last \in Nat, Safe(d, last), last + 1 \in Ids, NEW piece \in Node
  PROVE  Safe([d EXCEPT !.nodes = With(@, last + 1, piece)], last + 1)
<1> DEFINE e == [d EXCEPT !.nodes = With(@, last + 1, piece)]
<1>1. /\ d = [nodes |-> d.nodes, edges |-> d.edges]
      /\ DOMAIN d.nodes \subseteq Ids /\ d.nodes \in [DOMAIN d.nodes -> Node]
      /\ DOMAIN d.edges \subseteq Ids /\ d.edges \in [DOMAIN d.edges -> Edge]
      /\ WellFormed(d)
      /\ DOMAIN d.nodes \subseteq 1..last /\ DOMAIN d.edges \subseteq 1..last
      /\ \A x \in DOMAIN d.edges : d.edges[x].source \in 1..last /\ d.edges[x].target \in 1..last
  BY SafeParts
<1>2. e = [nodes |-> With(d.nodes, last + 1, piece), edges |-> d.edges]
  BY <1>1
<1> HIDE DEF e
<1>3. e.nodes = With(d.nodes, last + 1, piece) /\ e.edges = d.edges
  BY <1>2
<1>4. /\ DOMAIN e.nodes = DOMAIN d.nodes \cup {last + 1}
      /\ e.nodes \in [DOMAIN e.nodes -> Node]
      /\ \A x \in DOMAIN d.nodes : e.nodes[x] = d.nodes[x]
  BY <1>1, <1>3 DEF With
<1>5. IsDefinition(e)
  BY <1>1, <1>2, <1>3, <1>4 DEF IsDefinition
<1>6. \A x \in 1..last : EndType(e, x) = EndType(d, x)
  BY <1>4 DEF EndType
<1>7. WellFormed(e)
  BY <1>1, <1>3, <1>6, StillClosed
<1>8. 1..last \subseteq 1..last + 1 /\ last + 1 \in 1..last + 1
  OBVIOUS
<1> QED
  BY <1>1, <1>3, <1>4, <1>5, <1>7, <1>8, PartsAreSafe DEF e

\* A command that leaves some of the nodes, and no edge with an end at one that it takes, is safe.
LEMMA LessIsSafe ==
  ASSUME NEW d, NEW last, Safe(d, last), NEW ids \in SUBSET DOMAIN d.nodes, NEW left \in SUBSET DOMAIN d.edges,
         \A x \in left : /\ d.edges[x].source \in DOMAIN d.nodes => d.edges[x].source \in ids
                         /\ d.edges[x].target \in DOMAIN d.nodes => d.edges[x].target \in ids
  PROVE  Safe([nodes |-> Restricted(d.nodes, ids), edges |-> Restricted(d.edges, left)], last)
<1> DEFINE e == [nodes |-> Restricted(d.nodes, ids), edges |-> Restricted(d.edges, left)]
<1>1. /\ DOMAIN d.nodes \subseteq Ids /\ d.nodes \in [DOMAIN d.nodes -> Node]
      /\ DOMAIN d.edges \subseteq Ids /\ d.edges \in [DOMAIN d.edges -> Edge]
      /\ WellFormed(d)
      /\ DOMAIN d.nodes \subseteq 1..last /\ DOMAIN d.edges \subseteq 1..last
      /\ \A x \in DOMAIN d.edges : d.edges[x].source \in 1..last /\ d.edges[x].target \in 1..last
  BY SafeParts
<1>2. /\ DOMAIN e.nodes = ids /\ \A x \in ids : e.nodes[x] = d.nodes[x]
      /\ DOMAIN e.edges = left /\ \A x \in left : e.edges[x] = d.edges[x]
      /\ e.nodes \in [ids -> Node] /\ e.edges \in [left -> Edge]
      /\ e = [nodes |-> e.nodes, edges |-> e.edges]
  BY <1>1 DEF Restricted
<1> HIDE DEF e
<1>3. IsDefinition(e)
  BY <1>1, <1>2 DEF IsDefinition
<1>4. \A x : (x \in DOMAIN d.nodes => x \in ids) => EndType(e, x) = EndType(d, x)
  BY <1>2 DEF EndType
<1>5. WellFormed(e)
  BY <1>1, <1>2, <1>4, StillClosed
<1>6. /\ DOMAIN e.nodes \subseteq 1..last /\ DOMAIN e.edges \subseteq 1..last
      /\ \A x \in DOMAIN e.edges : e.edges[x].source \in 1..last /\ e.edges[x].target \in 1..last
  BY <1>1, <1>2
<1> QED
  BY <1>3, <1>5, <1>6, PartsAreSafe DEF e

\* A command that changes one edge, and not its ends, is safe.
LEMMA EdgeChangeIsSafe ==
  ASSUME NEW d, NEW last, Safe(d, last), NEW id \in DOMAIN d.edges,
         NEW edge \in Edge, edge.source = d.edges[id].source, edge.target = d.edges[id].target
  PROVE  Safe([d EXCEPT !.edges = [@ EXCEPT ![id] = edge]], last)
<1> DEFINE e == [d EXCEPT !.edges = [@ EXCEPT ![id] = edge]]
<1>1. /\ d = [nodes |-> d.nodes, edges |-> d.edges]
      /\ DOMAIN d.nodes \subseteq Ids /\ d.nodes \in [DOMAIN d.nodes -> Node]
      /\ DOMAIN d.edges \subseteq Ids /\ d.edges \in [DOMAIN d.edges -> Edge]
      /\ WellFormed(d)
      /\ DOMAIN d.nodes \subseteq 1..last /\ DOMAIN d.edges \subseteq 1..last
      /\ \A x \in DOMAIN d.edges : d.edges[x].source \in 1..last /\ d.edges[x].target \in 1..last
  BY SafeParts
<1>2. e = [nodes |-> d.nodes, edges |-> [d.edges EXCEPT ![id] = edge]]
  BY <1>1
<1> HIDE DEF e
<1>3. e.nodes = d.nodes /\ e.edges = [d.edges EXCEPT ![id] = edge]
  BY <1>2
<1>4. IsDefinition(e)
  BY <1>1, <1>2, <1>3 DEF IsDefinition
<1>5. /\ DOMAIN e.edges = DOMAIN d.edges
      /\ \A x \in DOMAIN e.edges : e.edges[x].source = d.edges[x].source /\ e.edges[x].target = d.edges[x].target
  BY <1>1, <1>3
<1>6. \A x : EndType(e, x) = EndType(d, x)
  BY <1>3 DEF EndType
<1>7. WellFormed(e)
  BY <1>1, <1>5, <1>6, StillClosed
<1> QED
  BY <1>1, <1>3, <1>4, <1>5, <1>7, PartsAreSafe DEF e

\* A connection between two nodes that have the ports for it is safe.
LEMMA NewEdgeIsSafe ==
  ASSUME NEW d, NEW last \in Nat, Safe(d, last), last + 1 \in Ids, NEW edge \in Edge,
         {edge.source, edge.target} \subseteq DOMAIN d.nodes,
         d.nodes[edge.source].type \notin {"group", "end"}, d.nodes[edge.target].type \notin {"group", "trigger"}
  PROVE  Safe([d EXCEPT !.edges = With(@, last + 1, edge)], last + 1)
<1> DEFINE e == [d EXCEPT !.edges = With(@, last + 1, edge)]
<1>1. /\ d = [nodes |-> d.nodes, edges |-> d.edges]
      /\ DOMAIN d.nodes \subseteq Ids /\ d.nodes \in [DOMAIN d.nodes -> Node]
      /\ DOMAIN d.edges \subseteq Ids /\ d.edges \in [DOMAIN d.edges -> Edge]
      /\ WellFormed(d)
      /\ DOMAIN d.nodes \subseteq 1..last /\ DOMAIN d.edges \subseteq 1..last
      /\ \A x \in DOMAIN d.edges : d.edges[x].source \in 1..last /\ d.edges[x].target \in 1..last
  BY SafeParts
<1>2. e = [nodes |-> d.nodes, edges |-> With(d.edges, last + 1, edge)]
  BY <1>1
<1> HIDE DEF e
<1>3. e.nodes = d.nodes /\ e.edges = With(d.edges, last + 1, edge)
  BY <1>2
<1>4. /\ DOMAIN e.edges = DOMAIN d.edges \cup {last + 1}
      /\ e.edges \in [DOMAIN e.edges -> Edge]
      /\ \A x \in DOMAIN e.edges : e.edges[x] = IF x = last + 1 THEN edge ELSE d.edges[x]
  BY <1>1, <1>3 DEF With
<1>5. IsDefinition(e)
  BY <1>1, <1>2, <1>3, <1>4 DEF IsDefinition
<1>6. \A x : EndType(e, x) = EndType(d, x)
  BY <1>3 DEF EndType
<1>7. EndType(e, edge.source) \notin {"missing", "group", "end"} /\ EndType(e, edge.target) \notin {"missing", "group", "trigger"}
  <2>1. \A x \in DOMAIN d.nodes : EndType(e, x) = d.nodes[x].type /\ d.nodes[x].type # "missing"
    BY <1>1, <1>3, EditorAssumption DEF EndType, Node
  <2> QED
    BY <2>1
<1>8. last + 1 \notin DOMAIN d.edges
  BY <1>1
<1>9. WellFormed(e)
  <2> SUFFICES ASSUME NEW x \in DOMAIN e.edges
               PROVE  /\ \/ EndType(e, e.edges[x].source) \notin {"missing", "group", "end"}
                         \/ \E f \in Brought(x, e.edges[x]) : EndType(f, e.edges[x].source) = EndType(e, e.edges[x].source)
                      /\ \/ EndType(e, e.edges[x].target) \notin {"missing", "group", "trigger"}
                         \/ \E f \in Brought(x, e.edges[x]) : EndType(f, e.edges[x].target) = EndType(e, e.edges[x].target)
    BY DEF WellFormed
  <2>1. CASE x = last + 1
    BY <1>4, <1>7, <2>1
  <2>2. CASE x # last + 1
    <3>1. x \in DOMAIN d.edges /\ e.edges[x] = d.edges[x]
      BY <1>4, <2>2
    <3> QED
      BY <1>1, <1>6, <3>1 DEF WellFormed
  <2> QED
    BY <2>1, <2>2
<1>10. 1..last \subseteq 1..last + 1 /\ last + 1 \in 1..last + 1
  OBVIOUS
<1>11. \A x \in DOMAIN e.edges : e.edges[x].source \in 1..last + 1 /\ e.edges[x].target \in 1..last + 1
  BY <1>1, <1>4, <1>10
<1>12. DOMAIN e.nodes \subseteq 1..last + 1 /\ DOMAIN e.edges \subseteq 1..last + 1
  BY <1>1, <1>3, <1>4, <1>10
<1> QED
  BY <1>5, <1>9, <1>11, <1>12, PartsAreSafe DEF e

\* The positions of a layout are safe.
LEMMA LayoutIsSafe ==
  ASSUME NEW d, NEW last, Safe(d, last), NEW p \in {0, 1}
  PROVE  Safe([d EXCEPT !.nodes =
           [id \in DOMAIN @ |-> IF @[id].locked THEN @[id] ELSE [@[id] EXCEPT !.position = p]]], last)
<1> DEFINE placed == [id \in DOMAIN d.nodes |->
                        IF d.nodes[id].locked THEN d.nodes[id] ELSE [d.nodes[id] EXCEPT !.position = p]]
           e == [d EXCEPT !.nodes = placed]
<1>1. /\ d = [nodes |-> d.nodes, edges |-> d.edges]
      /\ DOMAIN d.nodes \subseteq Ids /\ d.nodes \in [DOMAIN d.nodes -> Node]
      /\ DOMAIN d.edges \subseteq Ids /\ d.edges \in [DOMAIN d.edges -> Edge]
      /\ WellFormed(d)
  BY SafeParts
<1>2. \A n \in Node : [n EXCEPT !.position = p] \in Node /\ [n EXCEPT !.position = p].type = n.type
  BY DEF Node
<1>3. /\ DOMAIN placed = DOMAIN d.nodes /\ placed \in [DOMAIN d.nodes -> Node]
      /\ \A x \in DOMAIN d.nodes : placed[x].type = d.nodes[x].type
  BY <1>1, <1>2
<1>4. e = [nodes |-> placed, edges |-> d.edges]
  BY <1>1
<1> HIDE DEF placed, e
<1>5. e.nodes = placed /\ e.edges = d.edges
  BY <1>4
<1>6. IsDefinition(e)
  BY <1>1, <1>3, <1>4, <1>5 DEF IsDefinition
<1>7. \A x : EndType(e, x) = EndType(d, x)
  BY <1>3, <1>5 DEF EndType
<1>8. WellFormed(e)
  BY <1>1, <1>5, <1>7, StillClosed
<1>9. Safe(e, last)
  BY <1>3, <1>5, <1>6, <1>8, SafeParts, PartsAreSafe
<1> QED
  BY <1>9 DEF e, placed

\* The last identifier given, once a document is there, is past every one that it mentions.
LEMMA GivenProperties ==
  ASSUME NEW d \in Foreign, NEW last \in Ids
  PROVE  /\ Given(last, d) \in Ids /\ last <= Given(last, d)
         /\ Names(d) \subseteq 1..Given(last, d)
<1> DEFINE S == {last} \cup Names(d)
           T == {MaxIds - x : x \in S}
<1>1. S \subseteq Ids /\ last \in S /\ MaxIds \in Nat
  <2>1. \A x \in DOMAIN d.edges : d.edges[x].source \in Ids /\ d.edges[x].target \in Ids
    BY DocumentsAssumption DEF IsDefinition, Edge
  <2>2. Names(d) \subseteq Ids
    BY <2>1, DocumentsAssumption DEF IsDefinition, Names, Ends
  <2> QED
    BY <2>2, EditorAssumption
<1> HIDE DEF S
<1>2. T \in SUBSET Nat /\ T # {}
  BY <1>1 DEF Ids
<1>3. PICK n \in T : \A m \in T : n <= m
  BY <1>2, LeastNumber, Zenon
<1>4. PICK x \in S : n = MaxIds - x
  BY <1>3
<1>5. \A y \in S : x >= y
  <2> SUFFICES ASSUME NEW y \in S PROVE x >= y
    OBVIOUS
  <2>1. MaxIds - y \in T
    OBVIOUS
  <2> QED
    BY <1>1, <1>3, <1>4, <2>1 DEF Ids
<1>6. Given(last, d) \in S /\ \A y \in S : Given(last, d) >= y
  <2>1. Given(last, d) = CHOOSE z \in S : \A y \in S : z >= y
    BY DEF Given, Max, S
  <2> QED
    BY <1>5, <2>1
<1>7. Given(last, d) \in Ids /\ last <= Given(last, d)
  BY <1>1, <1>6 DEF Ids
<1>8. ASSUME NEW y \in Names(d) PROVE y \in 1..Given(last, d)
  BY <1>1, <1>6, <1>8 DEF Ids, S
<1> QED
  BY <1>7, <1>8

\* A document that is loaded, imported or restored is safe: what is wrong with it came with it.
LEMMA ForeignIsSafe ==
  ASSUME NEW d \in Foreign, NEW last \in Ids
  PROVE  Safe(d, Given(last, d)) /\ Given(last, d) \in Ids /\ last <= Given(last, d)
<1>1. d \in Definitions
  BY DocumentsAssumption, DefinitionParts
<1>2. \A e \in DOMAIN d.edges : d \in Brought(e, d.edges[e])
  BY DEF Brought
<1>3. WellFormed(d)
  BY <1>2 DEF WellFormed
<1> QED
  BY <1>1, <1>3, GivenProperties DEF Safe

-------------------------------------------------------------------------------
(* What each command does to the history.                                  *)

\* Every definition within reach is safe.
LEMMA ReachIsSafe ==
  ASSUME IInv, NEW d \in Reach
  PROVE  Safe(d, used)
<1>1. d \in Definitions
  BY DEF IInv, TypeOK, Reach, ToSet
<1> QED
  BY <1>1 DEF IInv, OldNames, GraphClosed, Reach, Safe

\* The identifiers marked for deletion, and those of what is selected.
LEMMA MarkedType ==
  ASSUME TypeOK
  PROVE  Marked \in Seq(Ids)
BY DEF TypeOK, SelectionOK, Marked, None

\* An edit to a safe definition is a step of the history.
LEMMA SafeEdit ==
  ASSUME NEW d, changedState(d), Safe(d, used')
  PROVE  HistoryStep
<1>1. definition' = d
  BY DEF changedState
<1> QED
  BY <1>1 DEF HistoryStep

\* Whatever the command, the history is left alone, emptied, undone, redone, or has one more
\* definition that is safe; identifiers are never given back.
LEMMA HistoryOfNext ==
  ASSUME IInv, Next
  PROVE  HistoryStep /\ used' \in Ids /\ used <= used'
<1> USE DEF Command
<1>1. Safe(definition, used) /\ used \in Ids /\ used \in Nat
  BY ReachIsSafe DEF Reach, IInv, TypeOK, Ids
<1>2. /\ definition = [nodes |-> definition.nodes, edges |-> definition.edges]
      /\ DOMAIN definition.nodes \subseteq Ids /\ definition.nodes \in [DOMAIN definition.nodes -> Node]
      /\ DOMAIN definition.edges \subseteq Ids /\ definition.edges \in [DOMAIN definition.edges -> Edge]
  BY <1>1, SafeParts
<1>3. CASE undo \/ redo
  BY <1>1, <1>3 DEF undo, redo, HistoryStep
<1>4. CASE loadDocument
  <2>1. PICK d \in Foreign : definition' = d /\ used' = Given(used, d)
    BY <1>4 DEF loadDocument
  <2> QED
    BY <1>1, <1>4, <2>1, ForeignIsSafe DEF loadDocument, HistoryStep
<1>5. CASE replaceDefinition
  <2>1. PICK d \in Foreign : changedState(d) /\ used' = Given(used, d)
    BY <1>5 DEF replaceDefinition
  <2> QED
    BY <1>1, <1>5, <2>1, ForeignIsSafe DEF replaceDefinition, changedState, HistoryStep
<1>6. CASE \E t \in Types : addNode(t)
  <2>1. PICK t \in Types : addNode(t)
    BY <1>6
  <2>2. NewNode(t) \in Node
    BY DEF NewNode, Node
  <2>3. /\ used + 1 \in Ids /\ used' = used + 1
        /\ changedState([definition EXCEPT !.nodes = With(@, used + 1, NewNode(t))])
    BY <2>1 DEF addNode, Fresh
  <2> QED
    BY <1>1, <2>2, <2>3, NewNodeIsSafe DEF changedState, HistoryStep
<1>7. CASE updateNode
  <2>1. PICK value \in {0, 1} : changedState([definition EXCEPT !.nodes[selectedNodeId].text = value])
    BY <1>7 DEF updateNode
  <2> DEFINE piece == [definition.nodes[selectedNodeId] EXCEPT !.text = value]
  <2>2. selectedNodeId \in DOMAIN definition.nodes /\ UNCHANGED used
    BY <1>7 DEF updateNode, Nodes
  <2>3. piece \in Node /\ piece.type = definition.nodes[selectedNodeId].type
    BY <1>2, <2>2 DEF Node
  <2>4. Safe([definition EXCEPT !.nodes = [@ EXCEPT ![selectedNodeId] = piece]], used)
    BY <1>1, <2>2, <2>3, NodeChangeIsSafe
  <2> QED
    BY <1>1, <2>1, <2>2, <2>4, SafeEdit
<1>8. CASE toggleNodeLock
  <2> DEFINE piece == [definition.nodes[selectedNodeId] EXCEPT !.locked = ~@]
  <2>1. changedState([definition EXCEPT !.nodes = [@ EXCEPT ![selectedNodeId] = piece]])
    BY <1>8 DEF toggleNodeLock
  <2>2. selectedNodeId \in DOMAIN definition.nodes /\ UNCHANGED used
    BY <1>8 DEF toggleNodeLock, Nodes
  <2>3. piece \in Node /\ piece.type = definition.nodes[selectedNodeId].type
    BY <1>2, <2>2 DEF Node
  <2>4. Safe([definition EXCEPT !.nodes = [@ EXCEPT ![selectedNodeId] = piece]], used)
    BY <1>1, <2>2, <2>3, NodeChangeIsSafe
  <2> QED
    BY <1>1, <2>1, <2>2, <2>4, SafeEdit
<1>9. CASE changeLayout
  <2>1. PICK p \in {0, 1} : changedState([definition EXCEPT !.nodes =
          [id \in DOMAIN @ |-> IF @[id].locked THEN @[id] ELSE [@[id] EXCEPT !.position = p]]])
    BY <1>9 DEF changeLayout
  <2>2. UNCHANGED used
    BY <1>9 DEF changeLayout
  <2>3. Safe([definition EXCEPT !.nodes =
          [id \in DOMAIN @ |-> IF @[id].locked THEN @[id] ELSE [@[id] EXCEPT !.position = p]]], used)
    BY <1>1, LayoutIsSafe
  <2> QED
    BY <1>1, <2>1, <2>2, <2>3, SafeEdit
<1>10. CASE duplicateSelected
  <2> DEFINE piece == [definition.nodes[selectedNodeId] EXCEPT !.locked = FALSE]
  <2>1. /\ used + 1 \in Ids /\ used' = used + 1 /\ selectedNodeId \in DOMAIN definition.nodes
        /\ changedState([definition EXCEPT !.nodes = With(@, used + 1, piece)])
    BY <1>10 DEF duplicateSelected, Fresh, Nodes
  <2>2. piece \in Node
    BY <1>2, <2>1 DEF Node
  <2>3. Safe([definition EXCEPT !.nodes = With(@, used + 1, piece)], used + 1)
    BY <1>1, <2>1, <2>2, NewNodeIsSafe
  <2> QED
    BY <1>1, <2>1, <2>3, SafeEdit
<1>11. CASE deleteSelected
  <2> DEFINE out  == ToSet(Marked)
             left == {e \in Edges : Ends(definition.edges[e]) \cap out = {}}
  <2>1. UNCHANGED used
    BY <1>11 DEF deleteSelected
  <2>2. \A e \in left : definition.edges[e].source \notin out /\ definition.edges[e].target \notin out
    BY DEF Ends
  <2>3. CASE changedState([nodes |-> Restricted(definition.nodes, Nodes \ out),
                           edges |-> Restricted(definition.edges, left)])
    <3> HIDE DEF out
    <3>1. Nodes \ out \in SUBSET DOMAIN definition.nodes /\ left \in SUBSET DOMAIN definition.edges
      BY DEF Nodes, Edges
    <3> HIDE DEF left
    <3>2. Safe([nodes |-> Restricted(definition.nodes, Nodes \ out), edges |-> Restricted(definition.edges, left)], used)
      BY <1>1, <2>2, <3>1, LessIsSafe DEF Nodes
    <3> QED
      BY <1>1, <2>1, <2>3, <3>2, SafeEdit
  <2>4. CASE changedState([definition EXCEPT !.edges = Restricted(@, Edges \ {selectedEdgeId})])
    <3>1. definition.nodes = Restricted(definition.nodes, Nodes)
      BY <1>2 DEF Restricted, Nodes
    <3>2. [definition EXCEPT !.edges = Restricted(@, Edges \ {selectedEdgeId})]
            = [nodes |-> Restricted(definition.nodes, Nodes), edges |-> Restricted(definition.edges, Edges \ {selectedEdgeId})]
      BY <1>2, <3>1
    <3>3. Safe([definition EXCEPT !.edges = Restricted(@, Edges \ {selectedEdgeId})], used)
      <4> DEFINE rest == Edges \ {selectedEdgeId}
      <4>2. rest \in SUBSET DOMAIN definition.edges /\ Nodes = DOMAIN definition.nodes
        BY DEF Edges, Nodes
      <4> HIDE DEF rest
      <4>3. Safe([nodes |-> Restricted(definition.nodes, Nodes), edges |-> Restricted(definition.edges, rest)], used)
        BY <1>1, <4>2, LessIsSafe
      <4> QED
        BY <3>2, <4>3 DEF rest
    <3> QED
      BY <1>1, <2>1, <2>4, <3>3, SafeEdit
  <2> QED
    BY <1>11, <2>3, <2>4 DEF deleteSelected
<1>12. CASE updateEdge
  <2>1. PICK b \in BOOLEAN : changedState([definition EXCEPT !.edges[selectedEdgeId].isDefault = b])
    BY <1>12 DEF updateEdge
  <2> DEFINE edge == [definition.edges[selectedEdgeId] EXCEPT !.isDefault = b]
  <2>2. selectedEdgeId \in DOMAIN definition.edges /\ UNCHANGED used
    BY <1>12 DEF updateEdge, Edges
  <2>3. edge \in Edge /\ edge.source = definition.edges[selectedEdgeId].source
        /\ edge.target = definition.edges[selectedEdgeId].target
    BY <1>2, <2>2 DEF Edge
  <2>4. Safe([definition EXCEPT !.edges = [@ EXCEPT ![selectedEdgeId] = edge]], used)
    BY <1>1, <2>2, <2>3, EdgeChangeIsSafe
  <2> QED
    BY <1>1, <2>1, <2>2, <2>4, SafeEdit
<1>13. CASE \E id \in Nodes : moveNode(id)
  <2>1. PICK id \in Nodes : moveNode(id)
    BY <1>13
  <2>2. PICK p \in {0, 1} : changedState([definition EXCEPT !.nodes[id].position = p])
    BY <2>1 DEF moveNode
  <2> DEFINE piece == [definition.nodes[id] EXCEPT !.position = p]
  <2>3. id \in DOMAIN definition.nodes /\ UNCHANGED used
    BY <2>1 DEF moveNode, Nodes
  <2>4. piece \in Node /\ piece.type = definition.nodes[id].type
    BY <1>2, <2>3 DEF Node
  <2>5. Safe([definition EXCEPT !.nodes = [@ EXCEPT ![id] = piece]], used)
    BY <1>1, <2>3, <2>4, NodeChangeIsSafe
  <2> QED
    BY <1>1, <2>2, <2>3, <2>5, SafeEdit
<1>14. CASE \E id \in Nodes, additive \in BOOLEAN : handleNodeClick(id, additive)
  <2>1. PICK id \in Nodes, additive \in BOOLEAN : handleNodeClick(id, additive)
    BY <1>14
  <2>2. CASE UNCHANGED <<definition, past, future, used>>
    BY <1>1, <2>2 DEF HistoryStep
  <2>3. CASE Connectable(connectionSourceId, id) /\ addEdge(connectionSourceId, id)
    <3> DEFINE outgoing == {e \in Edges : definition.edges[e].source = connectionSourceId}
               edge == [source |-> connectionSourceId, target |-> id, priority |-> Cardinality(outgoing) + 1,
                        isDefault |-> connectionSourceId \in Nodes
                                      /\ definition.nodes[connectionSourceId].type = "decision" /\ outgoing = {}]
    <3>1. /\ used + 1 \in Ids /\ used' = used + 1
          /\ changedState([definition EXCEPT !.edges = With(@, used + 1, edge)])
      BY <2>3 DEF addEdge, Fresh
    <3>2. Cardinality(outgoing) \in Nat
      <4>1. IsFiniteSet(Ids)
        BY EditorAssumption, FS_Interval DEF Ids
      <4>2. outgoing \subseteq Ids
        BY <1>2 DEF Edges
      <4> QED
        BY <4>1, <4>2, FS_Subset, FS_CardinalityType, Zenon
    <3> HIDE DEF outgoing
    <3>3. edge \in Edge
      BY <1>2, <2>1, <2>3, <3>2 DEF Edge, Connectable, Nodes
    <3>4. /\ {edge.source, edge.target} \subseteq DOMAIN definition.nodes
          /\ definition.nodes[edge.source].type \notin {"group", "end"}
          /\ definition.nodes[edge.target].type \notin {"group", "trigger"}
      BY <2>3 DEF Connectable, Nodes
    <3> HIDE DEF edge
    <3> QED
      BY <1>1, <3>1, <3>3, <3>4, NewEdgeIsSafe DEF changedState, HistoryStep
  <2> QED
    BY <2>1, <2>2, <2>3 DEF handleNodeClick
<1>15. CASE updateFlowMeta
  BY <1>1, <1>15, SafeEdit DEF updateFlowMeta
<1>16. CASE (\E id \in Edges : selectEdge(id)) \/ clearSelection \/ toggleConnectMode \/ Escape \/ Inspect
  BY <1>1, <1>16 DEF selectEdge, clearSelection, toggleConnectMode, Escape, Inspect, HistoryStep
<1> QED
  BY <1>3, <1>4, <1>5, <1>6, <1>7, <1>8, <1>9, <1>10, <1>11, <1>12, <1>13, <1>14, <1>15, <1>16 DEF Next

-------------------------------------------------------------------------------
(* What the limits cut.                                                    *)

\* The limit of past keeps the newest definitions, in their order.
LEMMA LastHundred ==
  ASSUME NEW D, NEW s \in Seq(D)
  PROVE  /\ Last100(s) \in Seq(D)
         /\ Len(Last100(s)) = IF Len(s) > Depth THEN Depth ELSE Len(s)
         /\ \A i \in 1..Len(Last100(s)) : Last100(s)[i] = s[i + Len(s) - Len(Last100(s))]
<1>1. Depth \in Nat /\ Depth > 0 /\ Len(s) \in Nat
  BY EditorAssumption
<1> DEFINE first == IF Len(s) > Depth THEN Len(s) - Depth + 1 ELSE 1
<1>2. first \in 1..Len(s) + 1 /\ \A i \in first..Len(s) : i \in 1..Len(s)
  BY <1>1
<1>3. /\ Last100(s) \in Seq(D)
      /\ Len(Last100(s)) = IF first <= Len(s) THEN Len(s) - first + 1 ELSE 0
      /\ \A i \in 1..Len(s) - first + 1 : Last100(s)[i] = s[first + i - 1]
  BY <1>2, SubSeqProperties DEF Last100
<1>4. first \in Nat /\ Len(s) - first + 1 = IF Len(s) > Depth THEN Depth ELSE Len(s)
  BY <1>1
<1> HIDE DEF first
<1>5. Len(Last100(s)) = Len(s) - first + 1
  BY <1>1, <1>2, <1>3
<1>6. \A i \in 1..Len(Last100(s)) : first + i - 1 = i + Len(s) - Len(Last100(s))
  BY <1>1, <1>4, <1>5
<1>7. \A i \in 1..Len(Last100(s)) : Last100(s)[i] = s[i + Len(s) - Len(Last100(s))]
  BY <1>3, <1>5, <1>6
<1> QED
  BY <1>3, <1>4, <1>5, <1>7

\* The limit of future keeps the nearest definitions, in their order.
LEMMA FirstHundred ==
  ASSUME NEW D, NEW s \in Seq(D)
  PROVE  /\ First100(s) \in Seq(D)
         /\ Len(First100(s)) = IF Len(s) > Depth THEN Depth ELSE Len(s)
         /\ \A i \in 1..Len(First100(s)) : First100(s)[i] = s[i]
<1>1. Depth \in Nat /\ Depth > 0 /\ Len(s) \in Nat
  BY EditorAssumption
<1> DEFINE last == IF Len(s) > Depth THEN Depth ELSE Len(s)
<1>2. 1 \in 1..last + 1 /\ last \in Nat /\ \A i \in 1..last : i \in 1..Len(s)
  BY <1>1
<1>3. /\ First100(s) \in Seq(D)
      /\ Len(First100(s)) = IF 1 <= last THEN last - 1 + 1 ELSE 0
      /\ \A i \in 1..last - 1 + 1 : First100(s)[i] = s[1 + i - 1]
  BY <1>2, SubSeqProperties DEF First100
<1> HIDE DEF last
<1>4. Len(First100(s)) = last /\ \A i \in 1..last : First100(s)[i] = s[i]
  BY <1>2, <1>3
<1> QED
  BY <1>3, <1>4 DEF last

\* A sequence within the limit is not cut.
LEMMA NotCut ==
  ASSUME NEW D, NEW s \in Seq(D), Len(s) <= Depth
  PROVE  Last100(s) = s /\ First100(s) = s
<1>1. Depth \in Nat /\ Len(s) \in Nat
  BY EditorAssumption
<1>2. /\ Last100(s) \in Seq(D) /\ Len(Last100(s)) = Len(s)
      /\ \A i \in 1..Len(Last100(s)) : Last100(s)[i] = s[i + Len(s) - Len(Last100(s))]
  BY <1>1, LastHundred
<1>3. /\ First100(s) \in Seq(D) /\ Len(First100(s)) = Len(s)
      /\ \A i \in 1..Len(First100(s)) : First100(s)[i] = s[i]
  BY <1>1, FirstHundred
<1>4. \A i \in 1..Len(s) : Last100(s)[i] = s[i]
  BY <1>1, <1>2
<1> QED
  BY <1>2, <1>3, <1>4, SeqEqual

\* Undo takes the newest definition of past and puts the one that was shown before those of future.
LEMMA UndoHistory ==
  ASSUME TypeOK, ShortHistory, undo
  PROVE  /\ past' \in Seq(Definitions) /\ future' \in Seq(Definitions) /\ definition' \in Definitions
         /\ Len(past) > 0 /\ Len(past') = Len(past) - 1 /\ Len(future') = Len(future) + 1
         /\ definition' = past[Len(past)] /\ \A i \in 1..Len(past) - 1 : past'[i] = past[i]
         /\ future'[1] = definition /\ \A i \in 1..Len(future) : future'[i + 1] = future[i]
<1>1. /\ past \in Seq(Definitions) /\ past # <<>> /\ Len(past) \in Nat /\ Len(past) > 0
      /\ future \in Seq(Definitions) /\ Len(future) \in Nat /\ definition \in Definitions
  BY EmptySeq DEF TypeOK, undo
<1>2. /\ past' \in Seq(Definitions) /\ Len(past') = Len(past) - 1
      /\ \A i \in 1..Len(past) - 1 : past'[i] = past[i]
  <2>1. \A i \in 1..Len(past) - 1 : past[i] \in Definitions
    BY <1>1
  <2>2. /\ SubSeq(past, 1, Len(past) - 1) \in Seq(Definitions)
        /\ Len(SubSeq(past, 1, Len(past) - 1)) = IF 1 <= Len(past) - 1 THEN Len(past) - 1 - 1 + 1 ELSE 0
        /\ \A i \in 1..Len(past) - 1 - 1 + 1 : SubSeq(past, 1, Len(past) - 1)[i] = past[1 + i - 1]
    BY <1>1, <2>1, SubSeqProperties
  <2> QED
    BY <1>1, <2>2 DEF undo, Front
<1>3. definition' = past[Len(past)] /\ definition' \in Definitions
  BY <1>1 DEF undo, Last
<1>4. future' = <<definition>> \o future
  <2>1. <<definition>> \in Seq(Definitions) /\ Len(<<definition>>) = 1
    BY <1>1
  <2>2. <<definition>> \o future \in Seq(Definitions) /\ Len(<<definition>> \o future) = 1 + Len(future)
    BY <1>1, <2>1, ConcatProperties
  <2>3. 1 + Len(future) <= Depth
    BY <1>1, EditorAssumption DEF ShortHistory
  <2>4. First100(<<definition>> \o future) = <<definition>> \o future
    BY <2>2, <2>3, NotCut
  <2> QED
    BY <2>4 DEF undo
<1> QED
  BY <1>1, <1>2, <1>3, <1>4

\* Redo takes the nearest definition of future and puts the one that was shown after those of past.
LEMMA RedoHistory ==
  ASSUME TypeOK, ShortHistory, redo
  PROVE  /\ past' \in Seq(Definitions) /\ future' \in Seq(Definitions) /\ definition' \in Definitions
         /\ Len(future) > 0 /\ Len(past') = Len(past) + 1 /\ Len(future') = Len(future) - 1
         /\ definition' = future[1] /\ \A i \in 1..Len(future) - 1 : future'[i] = future[i + 1]
         /\ past'[Len(past) + 1] = definition /\ \A i \in 1..Len(past) : past'[i] = past[i]
<1>1. /\ past \in Seq(Definitions) /\ Len(past) \in Nat
      /\ future \in Seq(Definitions) /\ future # <<>> /\ Len(future) \in Nat /\ Len(future) > 0
      /\ definition \in Definitions
  BY EmptySeq DEF TypeOK, redo
<1>2. /\ future' \in Seq(Definitions) /\ Len(future') = Len(future) - 1
      /\ \A i \in 1..Len(future) - 1 : future'[i] = future[i + 1]
  BY <1>1, HeadTailProperties DEF redo
<1>3. definition' = future[1] /\ definition' \in Definitions
  BY <1>1 DEF redo
<1>4. past' = Append(past, definition)
  <2>1. Append(past, definition) \in Seq(Definitions) /\ Len(Append(past, definition)) = Len(past) + 1
    BY <1>1, AppendProperties
  <2>2. Len(past) + 1 <= Depth
    BY <1>1, EditorAssumption DEF ShortHistory
  <2>3. Last100(Append(past, definition)) = Append(past, definition)
    BY <2>1, <2>2, NotCut
  <2> QED
    BY <2>3 DEF redo
<1> QED
  BY <1>1, <1>2, <1>3, <1>4, AppendProperties

\* An edit puts the definition that was shown after those of past, drops the oldest if past is full,
\* and forgets the future.
LEMMA EditHistory ==
  ASSUME TypeOK, NEW d \in Definitions, changedState(d)
  PROVE  /\ past' \in Seq(Definitions) /\ future' = <<>> /\ definition' = d
         /\ Len(past') = IF Len(past) + 1 > Depth THEN Depth ELSE Len(past) + 1
         /\ \A i \in 1..Len(past') :
              past'[i] = IF i = Len(past') THEN definition ELSE past[i + Len(past) + 1 - Len(past')]
<1>1. /\ past \in Seq(Definitions) /\ Len(past) \in Nat /\ definition \in Definitions
      /\ Depth \in Nat /\ Depth > 0
  BY EditorAssumption DEF TypeOK
<1>2. /\ Append(past, definition) \in Seq(Definitions) /\ Len(Append(past, definition)) = Len(past) + 1
      /\ Append(past, definition)[Len(past) + 1] = definition
      /\ \A i \in 1..Len(past) : Append(past, definition)[i] = past[i]
  BY <1>1, AppendProperties
<1>3. past' = Last100(Append(past, definition)) /\ future' = <<>> /\ definition' = d
  BY DEF changedState
<1>4. /\ past' \in Seq(Definitions)
      /\ Len(past') = IF Len(past) + 1 > Depth THEN Depth ELSE Len(past) + 1
      /\ \A i \in 1..Len(past') : past'[i] = Append(past, definition)[i + Len(past) + 1 - Len(past')]
  <2> DEFINE s == Append(past, definition)
  <2>1. s \in Seq(Definitions) /\ Len(s) = Len(past) + 1 /\ past' = Last100(s)
    BY <1>2, <1>3
  <2> HIDE DEF s
  <2>2. /\ Last100(s) \in Seq(Definitions)
        /\ Len(Last100(s)) = IF Len(s) > Depth THEN Depth ELSE Len(s)
        /\ \A i \in 1..Len(Last100(s)) : Last100(s)[i] = s[i + Len(s) - Len(Last100(s))]
    BY <2>1, LastHundred
  <2> QED
    <3>1. Len(past') = IF Len(past) + 1 > Depth THEN Depth ELSE Len(past) + 1
      BY <2>1, <2>2
    <3>2. \A i \in 1..Len(past') : past'[i] = s[i + (Len(past) + 1) - Len(past')]
      BY <2>1, <2>2
    <3>3. \A i \in 1..Len(past') : i + (Len(past) + 1) - Len(past') = i + Len(past) + 1 - Len(past')
      BY <1>1, <3>1
    <3>4. \A i \in 1..Len(past') : past'[i] = s[i + Len(past) + 1 - Len(past')]
      BY <3>2, <3>3
    <3> QED
      BY <2>1, <2>2, <3>1, <3>4 DEF s
<1>5. Len(past') \in 1..Len(past) + 1
  BY <1>1, <1>4
<1>6. \A i \in 1..Len(past') :
        past'[i] = IF i = Len(past') THEN definition ELSE past[i + Len(past) + 1 - Len(past')]
  <2> SUFFICES ASSUME NEW i \in 1..Len(past')
               PROVE  past'[i] = IF i = Len(past') THEN definition ELSE past[i + Len(past) + 1 - Len(past')]
    OBVIOUS
  <2>1. past'[i] = Append(past, definition)[i + Len(past) + 1 - Len(past')]
    BY <1>4
  <2>2. CASE i = Len(past')
    <3>1. i + Len(past) + 1 - Len(past') = Len(past) + 1
      BY <1>1, <1>5, <2>2
    <3> QED
      BY <1>2, <2>1, <2>2, <3>1
  <2>3. CASE i # Len(past')
    <3>1. i + Len(past) + 1 - Len(past') \in 1..Len(past)
      BY <1>1, <1>5, <2>3
    <3> QED
      BY <1>2, <2>1, <2>3, <3>1
  <2> QED
    BY <2>2, <2>3
<1> QED
  BY <1>3, <1>4, <1>6

\* A definition that a step of the history brings within reach is the one it makes.
LEMMA ReachOfStep ==
  ASSUME IInv, HistoryStep
  PROVE  /\ past' \in Seq(Definitions) /\ future' \in Seq(Definitions)
         /\ Len(past') + Len(future') <= Depth
         /\ \A d \in Reach' : d \in Reach \/ Safe(d, used')
<1>1. /\ past \in Seq(Definitions) /\ Len(past) \in Nat /\ definition \in Definitions
      /\ future \in Seq(Definitions) /\ Len(future) \in Nat
      /\ Depth \in Nat /\ Depth > 0 /\ TypeOK /\ ShortHistory
  BY EditorAssumption DEF IInv, TypeOK
<1>2. ASSUME NEW s \in Seq(Definitions) PROVE DOMAIN s = 1..Len(s)
  OBVIOUS
<1>3. \A d : d \in Reach <=> \/ d = definition \/ \E i \in 1..Len(past) : d = past[i]
                             \/ \E i \in 1..Len(future) : d = future[i]
  BY <1>1, <1>2 DEF Reach, ToSet
<1>4. ASSUME past' \in Seq(Definitions), future' \in Seq(Definitions), NEW d \in Reach'
      PROVE  \/ d = definition'
             \/ \E i \in 1..Len(past') : d = past'[i]
             \/ \E i \in 1..Len(future') : d = future'[i]
  <2>1. DOMAIN past' = 1..Len(past') /\ DOMAIN future' = 1..Len(future')
    BY <1>4
  <2>2. d \in {definition'} \cup {past'[i] : i \in DOMAIN past'} \cup {future'[i] : i \in DOMAIN future'}
    BY <1>4 DEF Reach, ToSet
  <2> QED
    BY <2>1, <2>2
<1>5. CASE UNCHANGED <<definition, past, future>>
  BY <1>1, <1>5 DEF ShortHistory, Reach
<1>6. CASE past' = <<>> /\ future' = <<>> /\ Safe(definition', used')
  BY <1>1, <1>6 DEF Reach, ToSet
<1>7. CASE undo
  <2>1. /\ past' \in Seq(Definitions) /\ future' \in Seq(Definitions)
        /\ Len(past) > 0 /\ Len(past') = Len(past) - 1 /\ Len(future') = Len(future) + 1
        /\ definition' = past[Len(past)] /\ \A i \in 1..Len(past) - 1 : past'[i] = past[i]
        /\ future'[1] = definition /\ \A i \in 1..Len(future) : future'[i + 1] = future[i]
    BY <1>1, <1>7, UndoHistory
  <2>2. \A i \in 1..Len(future') : i = 1 \/ (i - 1 \in 1..Len(future) /\ future'[i] = future[i - 1])
    BY <1>1, <2>1
  <2>3. ASSUME NEW d \in Reach' PROVE d \in Reach
    <3>1. CASE d = definition'
      BY <1>1, <1>3, <2>1, <3>1
    <3>2. CASE \E i \in 1..Len(past') : d = past'[i]
      BY <1>1, <1>3, <2>1, <3>2
    <3>3. CASE \E i \in 1..Len(future') : d = future'[i]
      BY <1>3, <2>1, <2>2, <3>3
    <3> QED
      BY <1>4, <2>1, <3>1, <3>2, <3>3
  <2> QED
    BY <1>1, <2>1, <2>3 DEF ShortHistory
<1>8. CASE redo
  <2>1. /\ past' \in Seq(Definitions) /\ future' \in Seq(Definitions)
        /\ Len(future) > 0 /\ Len(past') = Len(past) + 1 /\ Len(future') = Len(future) - 1
        /\ definition' = future[1] /\ \A i \in 1..Len(future) - 1 : future'[i] = future[i + 1]
        /\ past'[Len(past) + 1] = definition /\ \A i \in 1..Len(past) : past'[i] = past[i]
    BY <1>1, <1>8, RedoHistory
  <2>2. ASSUME NEW d \in Reach' PROVE d \in Reach
    <3>1. CASE d = definition'
      BY <1>1, <1>3, <2>1, <3>1
    <3>2. ASSUME NEW i \in 1..Len(past'), d = past'[i] PROVE d \in Reach
      <4>1. CASE i = Len(past) + 1
        BY <1>3, <2>1, <3>2, <4>1
      <4>2. CASE i # Len(past) + 1
        BY <1>1, <1>3, <2>1, <3>2, <4>2
      <4> QED
        BY <4>1, <4>2
    <3>3. ASSUME NEW i \in 1..Len(future'), d = future'[i] PROVE d \in Reach
      BY <1>1, <1>3, <2>1, <3>3
    <3> QED
      BY <1>4, <2>1, <3>1, <3>2, <3>3
  <2> QED
    BY <1>1, <2>1, <2>2 DEF ShortHistory
<1>9. CASE changedState(definition') /\ Safe(definition', used')
  <2>1. /\ past' \in Seq(Definitions) /\ future' = <<>>
        /\ Len(past') = IF Len(past) + 1 > Depth THEN Depth ELSE Len(past) + 1
        /\ \A i \in 1..Len(past') :
             past'[i] = IF i = Len(past') THEN definition ELSE past[i + Len(past) + 1 - Len(past')]
    BY <1>1, <1>9, EditHistory DEF Safe
  <2>2. future' \in Seq(Definitions) /\ Len(future') = 0
    BY <2>1
  <2>3. \A i \in 1..Len(past') : i # Len(past') => i + Len(past) + 1 - Len(past') \in 1..Len(past)
    BY <1>1, <2>1
  <2>4. ASSUME NEW d \in Reach' PROVE d \in Reach \/ d = definition'
    <3>1. CASE \E i \in 1..Len(past') : d = past'[i]
      BY <1>3, <2>1, <2>3, <3>1
    <3> QED
      BY <1>4, <2>1, <2>2, <3>1
  <2> QED
    BY <1>1, <1>9, <2>1, <2>2, <2>4
<1> QED
  BY <1>5, <1>6, <1>7, <1>8, <1>9 DEF HistoryStep

-------------------------------------------------------------------------------
(* The invariant.                                                          *)

\* Every command counts.
LEMMA NextIsACommand ==
  ASSUME Next
  PROVE  Command
BY DEF Next, undo, redo, loadDocument, replaceDefinition, addNode, updateFlowMeta, updateNode, toggleNodeLock, changeLayout,
       duplicateSelected, deleteSelected, updateEdge, moveNode, handleNodeClick, selectEdge, clearSelection,
       toggleConnectMode, Escape, Inspect

\* What can be selected is an identifier that was given or came with a document.
LEMMA SelectableType ==
  ASSUME IInv
  PROVE  /\ Selectable \subseteq 1..used /\ Selectable \subseteq Ids /\ None \notin Ids
         /\ Nodes \subseteq Selectable /\ Edges \subseteq Ids
<1>1. Safe(definition, used) /\ used \in Ids
  BY ReachIsSafe DEF Reach, IInv, TypeOK
<1>2. Selectable \subseteq 1..used /\ Edges \subseteq 1..used
  BY <1>1, SafeParts DEF Selectable, Loops, Nodes, Edges
<1>3. 1..used \subseteq Ids
  BY <1>1, EditorAssumption DEF Ids
<1> QED
  BY <1>2, <1>3 DEF Selectable, None, Ids

\* Whatever is undone or deleted, what is selected or connected is the identifier of something that
\* is or was.
LEMMA SelectionTypeStep ==
  ASSUME IInv, Next
  PROVE  SelectionOK' /\ ConnectionOK'
<1>1. /\ SelectionOK /\ ConnectionOK /\ used \in Nat
      /\ Nodes \subseteq Ids /\ Edges \subseteq Ids /\ Marked \in Seq(Ids)
  BY SelectableType, MarkedType DEF IInv, TypeOK, Ids
<1>2. Selectable \subseteq Ids
  BY SelectableType
<1>3. /\ UNCHANGED selection => SelectionOK'
      /\ UNCHANGED connection => ConnectionOK'
      /\ NoSelection => SelectionOK'
  <2>1. UNCHANGED selection => SelectionOK'
    BY <1>1 DEF SelectionOK, selection
  <2>2. UNCHANGED connection => ConnectionOK'
    BY <1>1 DEF ConnectionOK, connection
  <2>3. NoSelection => SelectionOK'
    BY DEF SelectionOK, NoSelection, None
  <2> QED
    BY <2>1, <2>2, <2>3
<1>4. CASE undo \/ redo \/ loadDocument \/ replaceDefinition \/ updateFlowMeta \/ updateNode \/ toggleNodeLock \/ changeLayout
           \/ updateEdge \/ clearSelection \/ (\E id \in Nodes : moveNode(id))
  BY <1>3, <1>4 DEF undo, redo, loadDocument, replaceDefinition, updateFlowMeta, updateNode, toggleNodeLock, changeLayout, updateEdge,
                    clearSelection, moveNode
<1>5. CASE toggleConnectMode \/ Escape
  BY <1>1, <1>3, <1>5 DEF toggleConnectMode, Escape, ConnectionOK, None
<1>6. CASE \E t \in Types : addNode(t)
  BY <1>1, <1>3, <1>6 DEF addNode, Fresh, SelectionOK, None
<1>7. CASE duplicateSelected
  BY <1>1, <1>3, <1>7 DEF duplicateSelected, Fresh, SelectionOK, None
<1>8. CASE Inspect \/ \E id \in Edges : selectEdge(id)
  <2>1. ConnectionOK'
    BY <1>3, <1>8 DEF Inspect, selectEdge
  <2>2. CASE Inspect
    BY <1>2, <2>1, <2>2 DEF Inspect, selectNode, SelectionOK, None
  <2>3. CASE \E id \in Edges : selectEdge(id)
    BY <1>1, <2>1, <2>3 DEF selectEdge, SelectionOK, None
  <2> QED
    BY <1>8, <2>2, <2>3
<1>9. CASE deleteSelected
  BY <1>1, <1>3, <1>9 DEF deleteSelected, SelectionOK, None
<1>10. CASE \E id \in Nodes, additive \in BOOLEAN : handleNodeClick(id, additive)
  <2>1. PICK id \in Nodes, additive \in BOOLEAN : handleNodeClick(id, additive)
    BY <1>10
  <2>2. ConnectionOK'
    BY <1>1, <1>3, <2>1 DEF handleNodeClick, ConnectionOK, connection, None
  <2>3. CASE selectNode(id)
    BY <1>1, <2>2, <2>3 DEF selectNode, SelectionOK, None
  <2>4. CASE addEdge(connectionSourceId, id)
    BY <2>2, <2>4 DEF addEdge, Fresh, SelectionOK, None
  <2>5. CASE toggleNodeSelection(id)
    <3> DEFINE next == IF id \in ToSet(Marked) THEN Unmarked(Marked, id) ELSE Append(Marked, id)
    <3>1. /\ selectedNodeIds' = next /\ selectedEdgeId' = None
          /\ selectedNodeId' = IF next = <<>> THEN None ELSE Last(next)
      BY <2>5 DEF toggleNodeSelection
    <3>2. Once(Marked)
      BY DEF IInv, OneSelection, Marked, Once
    <3>3. next \in Seq(Ids)
      BY <1>1, <2>1, <3>2, UnmarkedProperties, AppendProperties
    <3>4. next # <<>> => next[Len(next)] \in Ids
      BY <3>3, EmptySeq
    <3> HIDE DEF next
    <3> QED
      BY <2>2, <3>1, <3>3, <3>4 DEF Last, SelectionOK, None
  <2>6. CASE UNCHANGED selection
    BY <1>3, <2>2, <2>6
  <2> QED
    BY <2>1, <2>3, <2>4, <2>5, <2>6 DEF handleNodeClick
<1> QED
  BY <1>4, <1>5, <1>6, <1>7, <1>8, <1>9, <1>10 DEF Next

\* No command leaves the types.
LEMMA TypeStep ==
  ASSUME IInv, Next
  PROVE  TypeOK'
<1>1. HistoryStep /\ used' \in Ids
  BY HistoryOfNext
<1>2. past' \in Seq(Definitions) /\ future' \in Seq(Definitions) /\ \A d \in Reach' : d \in Reach \/ Safe(d, used')
  BY <1>1, ReachOfStep
<1>3. definition' \in Definitions
  BY <1>2, ReachIsSafe DEF Reach, Safe
<1>4. commands' \in 0..MaxCommands
  BY NextIsACommand, EditorAssumption DEF IInv, TypeOK, Command
<1> QED
  BY <1>1, <1>2, <1>3, <1>4, SelectionTypeStep DEF TypeOK

\* No command leaves a definition within reach that is not safe.
LEMMA ReachStep ==
  ASSUME IInv, Next
  PROVE  OldNames' /\ ShortHistory' /\ GraphClosed'
<1>1. HistoryStep /\ used' \in Ids /\ used \in Ids /\ used <= used'
  BY HistoryOfNext DEF IInv, TypeOK
<1>2. ASSUME NEW d \in Reach' PROVE WellFormed(d) /\ Names(d) \subseteq 1..used'
  <2>1. Safe(d, used) \/ Safe(d, used')
    BY <1>1, ReachOfStep, ReachIsSafe
  <2>2. 1..used \subseteq 1..used'
    BY <1>1 DEF Ids
  <2> QED
    BY <2>1, <2>2 DEF Safe
<1>3. ShortHistory'
  BY <1>1, ReachOfStep DEF ShortHistory
<1>4. OldNames'
  BY <1>2 DEF OldNames
<1>5. GraphClosed'
  BY <1>2 DEF GraphClosed, Reach
<1> QED
  BY <1>3, <1>4, <1>5

\* A command that leaves the nodes and the ends of the edges leaves what can be selected.
LEMMA SameSelectable ==
  ASSUME Nodes' = Nodes, Edges' = Edges,
         \A e \in Edges : /\ definition'.edges[e].source = definition.edges[e].source
                          /\ definition'.edges[e].target = definition.edges[e].target
  PROVE  Selectable' = Selectable
<1>1. Loops' = Loops
  BY DEF Loops
<1> QED
  BY <1>1 DEF Selectable, Loops

\* No command selects a node and an edge together, or anything that is gone, or marks a node twice,
\* or shows a node that was not the last one marked, but for a copy.
LEMMA SelectionStep ==
  ASSUME IInv, Next
  PROVE  OneSelection'
<1>1. /\ OneSelection /\ SelectionOK /\ Once(selectedNodeIds) /\ Once(Marked) /\ Marked \in Seq(Ids)
      /\ selectedNodeIds \in Seq(Ids)
  BY MarkedType DEF IInv, TypeOK, SelectionOK, OneSelection, Marked, Once
<1>2. /\ Selectable \subseteq 1..used /\ Selectable \subseteq Ids /\ None \notin Ids
      /\ Nodes \subseteq Selectable /\ Edges \subseteq Ids /\ used \in Nat
      /\ definition = [nodes |-> definition.nodes, edges |-> definition.edges]
  BY SelectableType, DefinitionParts DEF IsDefinition, IInv, TypeOK, Ids
<1>3. CASE NoSelection
  BY <1>3 DEF NoSelection, OneSelection, ToSet
<1>4. CASE \E id \in Ids \cap Selectable' : selectNode(id)
  <2>1. PICK id \in Ids \cap Selectable' : selectNode(id)
    BY <1>4
  <2>2. /\ selectedNodeId' = id /\ selectedNodeIds' = <<id>> /\ selectedEdgeId' = None
        /\ Len(selectedNodeIds') = 1 /\ selectedNodeIds'[1] = id
        /\ ToSet(selectedNodeIds') = {id} /\ Last(selectedNodeIds') = id /\ selectedNodeIds' # <<>>
    BY <2>1 DEF selectNode, Last, ToSet
  <2> QED
    BY <1>2, <2>1, <2>2 DEF OneSelection
<1>5. CASE UNCHANGED selection /\ UNCHANGED used /\ Edges' = Edges /\ Selectable' = Selectable
  BY <1>1, <1>5 DEF OneSelection, selection, Copied
<1>6. CASE undo \/ redo \/ loadDocument \/ replaceDefinition \/ clearSelection \/ Escape
  BY <1>3, <1>6 DEF undo, redo, loadDocument, replaceDefinition, clearSelection, Escape
<1>7. CASE \E t \in Types : addNode(t)
  <2>1. PICK t \in Types : addNode(t)
    BY <1>7
  <2>2. /\ used + 1 \in Ids /\ selectNode(used + 1)
        /\ definition' = [definition EXCEPT !.nodes = With(@, used + 1, NewNode(t))]
    BY <2>1 DEF addNode, selectNode, Fresh, changedState
  <2>3. used + 1 \in Nodes'
    BY <1>2, <2>2 DEF Nodes, With
  <2> QED
    BY <1>4, <2>2, <2>3 DEF Selectable
<1>8. CASE updateFlowMeta \/ updateNode \/ toggleNodeLock \/ changeLayout \/ updateEdge
           \/ (\E id \in Nodes : moveNode(id)) \/ toggleConnectMode
  <2>1. UNCHANGED selection /\ UNCHANGED used
    BY <1>8 DEF updateFlowMeta, updateNode, toggleNodeLock, changeLayout, updateEdge, moveNode, toggleConnectMode
  <2>2. Nodes' = Nodes /\ Edges' = Edges
        /\ \A e \in Edges : /\ definition'.edges[e].source = definition.edges[e].source
                            /\ definition'.edges[e].target = definition.edges[e].target
    <3>1. CASE updateEdge
      <4>1. PICK b \in BOOLEAN : definition' = [definition EXCEPT !.edges[selectedEdgeId].isDefault = b]
        BY <3>1 DEF updateEdge, changedState
      <4>2. definition'.nodes = definition.nodes
            /\ definition'.edges = [definition.edges EXCEPT ![selectedEdgeId] =
                                      [definition.edges[selectedEdgeId] EXCEPT !.isDefault = b]]
        BY <1>2, <4>1
      <4>3. \A e \in Edges : definition.edges[e] \in Edge
        BY DefinitionParts DEF IInv, TypeOK, IsDefinition, Edges
      <4> QED
        BY <4>2, <4>3 DEF Nodes, Edges, Edge
    <3>2. CASE updateNode \/ toggleNodeLock \/ changeLayout \/ \E id \in Nodes : moveNode(id)
      BY <1>2, <3>2 DEF updateNode, toggleNodeLock, changeLayout, moveNode, changedState, Nodes, Edges
    <3>3. CASE updateFlowMeta \/ toggleConnectMode
      BY <3>3 DEF updateFlowMeta, toggleConnectMode, changedState, Nodes, Edges
    <3> QED
      BY <1>8, <3>1, <3>2, <3>3
  <2> QED
    BY <1>5, <2>1, <2>2, SameSelectable
<1>9. CASE duplicateSelected
  <2>1. /\ used + 1 \in Ids /\ selectedNodeId' = used + 1 /\ used' = used + 1 /\ selectedNodeId \in Nodes
        /\ UNCHANGED <<selectedNodeIds, selectedEdgeId>>
        /\ definition' = [definition EXCEPT !.nodes =
             With(@, used + 1, [definition.nodes[selectedNodeId] EXCEPT !.locked = FALSE])]
    BY <1>9 DEF duplicateSelected, Fresh, changedState
  <2>2. definition'.edges = definition.edges /\ Nodes' = Nodes \cup {used + 1}
    BY <1>2, <2>1 DEF Nodes, With
  <2>3. Edges' = Edges /\ Selectable' = Selectable \cup {used + 1}
    BY <2>2 DEF Edges, Selectable, Loops
  <2>4. selectedNodeIds # <<>> /\ selectedEdgeId = None /\ ToSet(selectedNodeIds) \subseteq 1..used
    BY <1>1, <1>2, <2>1 DEF OneSelection
  <2>5. Copied'
    BY <1>2, <2>1, <2>4 DEF Copied
  <2> QED
    BY <1>1, <1>2, <2>1, <2>3, <2>4, <2>5 DEF OneSelection
<1>10. CASE deleteSelected
  <2>1. CASE selectedEdgeId # None /\ selectedEdgeId' = None /\ UNCHANGED <<selectedNodeId, selectedNodeIds>>
    <3>1. selectedNodeIds = <<>> /\ selectedNodeId = None
      BY <1>1, <2>1 DEF OneSelection
    <3> QED
      BY <1>3, <2>1, <3>1 DEF NoSelection
  <2> QED
    BY <1>3, <1>10, <2>1 DEF deleteSelected
<1>11. CASE \E id \in Edges : selectEdge(id)
  <2>1. selectedNodeId' = None /\ selectedNodeIds' = <<>> /\ selectedEdgeId' \in Edges /\ UNCHANGED definition
    BY <1>11 DEF selectEdge
  <2> QED
    BY <2>1 DEF OneSelection, Edges, ToSet
<1>12. CASE Inspect
  <2>1. PICK id \in Selectable : selectNode(id) /\ UNCHANGED definition
    BY <1>12 DEF Inspect
  <2> QED
    BY <1>2, <1>4, <2>1 DEF Selectable, Nodes, Loops, Edges
<1>13. CASE \E id \in Nodes, additive \in BOOLEAN : handleNodeClick(id, additive)
  <2>1. PICK id \in Nodes, additive \in BOOLEAN : handleNodeClick(id, additive)
    BY <1>13
  <2>2. UNCHANGED definition => Selectable' = Selectable /\ Edges' = Edges
    BY DEF Selectable, Nodes, Loops, Edges
  <2>3. CASE UNCHANGED <<definition, selection, used>>
    BY <1>5, <2>2, <2>3
  <2>4. CASE selectNode(id) /\ UNCHANGED definition
    BY <1>2, <1>4, <2>2, <2>4
  <2>5. CASE addEdge(connectionSourceId, id)
    <3>1. PICK new, edge :
            /\ new \in Ids
            /\ definition' = [definition EXCEPT !.edges = With(@, new, edge)]
            /\ selectedEdgeId' = new /\ selectedNodeId' = None /\ selectedNodeIds' = <<>>
      BY <2>5 DEF addEdge, Fresh, changedState
    <3>2. new \in DOMAIN definition'.edges
      BY <1>2, <3>1 DEF With
    <3> QED
      BY <3>1, <3>2 DEF OneSelection, Edges, ToSet
  <2>6. CASE toggleNodeSelection(id) /\ UNCHANGED definition
    <3> DEFINE next == IF id \in ToSet(Marked) THEN Unmarked(Marked, id) ELSE Append(Marked, id)
    <3>1. /\ selectedNodeIds' = next /\ selectedEdgeId' = None
          /\ selectedNodeId' = IF next = <<>> THEN None ELSE Last(next)
      BY <2>6 DEF toggleNodeSelection
    <3>2. Marked \in Seq(Selectable) /\ id \in Selectable
      <4>1. Marked = selectedNodeIds
        BY <1>1, <1>2 DEF Marked, OneSelection
      <4>2. \A i \in 1..Len(selectedNodeIds) : selectedNodeIds[i] \in Selectable
        BY <1>1 DEF OneSelection, ToSet
      <4>3. selectedNodeIds \in Seq(Selectable)
        BY <1>1, <4>2, SeqDef
      <4> QED
        BY <1>2, <2>1, <4>1, <4>3
    <3>3. next \in Seq(Selectable) /\ Once(next)
      <4>1. CASE id \in ToSet(Marked)
        BY <1>1, <3>2, <4>1, UnmarkedProperties
      <4>2. CASE id \notin ToSet(Marked)
        <5>1. \A i \in 1..Len(Marked) : Marked[i] # id
          BY <3>2, <4>2 DEF ToSet
        <5> QED
          BY <1>1, <3>2, <4>2, <5>1, OnceMore
      <4> QED
        BY <4>1, <4>2
    <3> HIDE DEF next
    <3>4. ToSet(next) \subseteq Selectable /\ (next # <<>> => Last(next) \in Selectable)
      BY <3>3, EmptySeq DEF Last, ToSet
    <3> QED
      BY <1>2, <2>2, <2>6, <3>1, <3>3, <3>4 DEF OneSelection, Once
  <2> QED
    BY <2>1, <2>3, <2>4, <2>5, <2>6 DEF handleNodeClick, selection
<1> QED
  BY <1>6, <1>7, <1>8, <1>9, <1>10, <1>11, <1>12, <1>13 DEF Next

\* A document that was just opened.
LEMMA InitInv == Init => IInv
<1> SUFFICES ASSUME Init PROVE IInv
  OBVIOUS
<1>1. 1 \in Ids /\ MaxCommands \in Nat /\ Depth \in Nat
  BY EditorAssumption DEF Ids
<1>2. Safe(definition, used) /\ past = <<>> /\ future = <<>> /\ used \in Ids
  BY <1>1, ForeignIsSafe DEF Init
<1>3. \A d \in Reach : d = definition
  BY <1>2 DEF Reach, ToSet
<1>4. SelectionOK /\ ConnectionOK /\ OneSelection
  <2>1. selectedNodeIds = <<>> /\ Len(selectedNodeIds) = 0 /\ selectedNodeIds \in Seq(Ids)
    BY DEF Init
  <2>2. SelectionOK /\ ConnectionOK
    BY <2>1 DEF Init, SelectionOK, ConnectionOK, None
  <2>3. OneSelection
    BY <2>1 DEF Init, OneSelection, ToSet
  <2> QED
    BY <2>2, <2>3
<1>5. TypeOK
  BY <1>1, <1>2, <1>4 DEF TypeOK, Safe, Init
<1>6. OldNames /\ ShortHistory /\ GraphClosed
  BY <1>1, <1>2, <1>3, EditorAssumption DEF OldNames, ShortHistory, GraphClosed, Reach, Safe
<1> QED
  BY <1>4, <1>5, <1>6 DEF IInv

\* The invariant holds of every state of the editor, whatever the commands and their order.
THEOREM Invariant == Spec => []IInv
<1>1. Init => IInv
  BY InitInv
<1>2. IInv /\ [Next]_vars => IInv'
  <2>1. CASE Next
    BY <2>1, TypeStep, ReachStep, SelectionStep DEF IInv
  <2>2. CASE UNCHANGED vars
    <3>1. UNCHANGED <<definition, past, future, selectedNodeId, selectedNodeIds, selectedEdgeId,
                      connectMode, connectionSourceId, used, commands>>
      BY <2>2 DEF vars, selection, connection
    <3>2. Selectable' = Selectable /\ Edges' = Edges
      BY <3>1 DEF Selectable, Nodes, Loops, Edges
    <3>3. OneSelection => OneSelection'
      BY <3>1, <3>2 DEF OneSelection, Copied
    <3>4. TypeOK => TypeOK'
      BY <3>1 DEF TypeOK, SelectionOK, ConnectionOK
    <3>5. OldNames /\ ShortHistory /\ GraphClosed => OldNames' /\ ShortHistory' /\ GraphClosed'
      BY <3>1, Zenon DEF OldNames, Reach, ShortHistory, GraphClosed
    <3> QED
      BY <3>3, <3>4, <3>5 DEF IInv
  <2> QED
    BY <2>1, <2>2
<1> QED
  BY <1>1, <1>2, PTL DEF Spec

\* Whatever was undone, redone or deleted between two clicks, and whatever the documents are, every
\* fault at an end of an edge within reach of undo and redo came with a document; nothing is marked
\* twice, all that is selected is there, and Delete takes the node that is shown, unless it is a copy
\* just made, and never one while an edge is shown.
THEOREM Consistent == Spec => []EditorIsConsistent
<1>1. IInv => EditorIsConsistent
  BY DEF IInv, EditorIsConsistent
<1> QED
  BY <1>1, Invariant, PTL

\* Every edge is between two nodes that have the ports for it.
Whole(d) ==
  \A e \in DOMAIN d.edges :
    /\ EndType(d, d.edges[e].source) \notin {"missing", "group", "end"}
    /\ EndType(d, d.edges[e].target) \notin {"missing", "group", "trigger"}

\* If every document that is loaded, imported or restored were validated, and not only checked
\* against the schema, no definition on the screen or within reach of undo and redo would ever have an
\* edge without its ends.
THEOREM WholeStaysWhole ==
  ASSUME \A f \in Foreign : Whole(f)
  PROVE  Spec => [](\A d \in Reach : Whole(d))
<1>1. ASSUME IInv, NEW d \in Reach PROVE Whole(d)
  <2>1. WellFormed(d)
    BY <1>1, ReachIsSafe DEF Safe
  <2>2. ASSUME NEW e \in DOMAIN d.edges, NEW f \in Brought(e, d.edges[e])
        PROVE  /\ EndType(f, d.edges[e].source) \notin {"missing", "group", "end"}
               /\ EndType(f, d.edges[e].target) \notin {"missing", "group", "trigger"}
    BY <2>2 DEF Brought, Whole
  <2> QED
    BY <2>1, <2>2 DEF WellFormed, Whole
<1>2. IInv => \A d \in Reach : Whole(d)
  BY <1>1
<1> QED
  BY <1>2, Invariant, PTL

-------------------------------------------------------------------------------
(* The history is a line.                                                  *)

\* The line through past, what is shown and future, place by place.
LEMMA LineAt ==
  ASSUME NEW p \in Seq(Definitions), NEW d \in Definitions, NEW f \in Seq(Definitions)
  PROVE  /\ p \o <<d>> \o f \in Seq(Definitions)
         /\ Len(p \o <<d>> \o f) = Len(p) + 1 + Len(f)
         /\ \A i \in 1..Len(p) : (p \o <<d>> \o f)[i] = p[i]
         /\ (p \o <<d>> \o f)[Len(p) + 1] = d
         /\ \A i \in 1..Len(f) : (p \o <<d>> \o f)[Len(p) + 1 + i] = f[i]
<1>1. <<d>> \in Seq(Definitions) /\ Len(<<d>>) = 1 /\ <<d>>[1] = d
  OBVIOUS
<1>2. Len(p) \in Nat /\ Len(f) \in Nat
  OBVIOUS
<1> DEFINE q == p \o <<d>>
<1>3. /\ q \in Seq(Definitions) /\ Len(q) = Len(p) + 1 /\ q[Len(p) + 1] = d
      /\ \A i \in 1..Len(p) : q[i] = p[i]
  BY <1>1, <1>2, ConcatProperties
<1> HIDE DEF q
<1>4. /\ q \o f \in Seq(Definitions) /\ Len(q \o f) = Len(q) + Len(f)
      /\ \A i \in 1..Len(q) + Len(f) : (q \o f)[i] = IF i <= Len(q) THEN q[i] ELSE f[i - Len(q)]
  BY <1>3, ConcatProperties
<1>5. \A i \in 1..Len(f) : (q \o f)[Len(p) + 1 + i] = f[i]
  <2> SUFFICES ASSUME NEW i \in 1..Len(f) PROVE (q \o f)[Len(p) + 1 + i] = f[i]
    OBVIOUS
  <2>1. /\ Len(p) + 1 + i \in 1..Len(q) + Len(f) /\ ~(Len(p) + 1 + i <= Len(q))
        /\ Len(p) + 1 + i - Len(q) = i
    BY <1>2, <1>3
  <2> QED
    BY <1>4, <2>1
<1>6. \A i \in 1..Len(p) + 1 : (q \o f)[i] = q[i]
  BY <1>2, <1>3, <1>4
<1> QED
  BY <1>2, <1>3, <1>4, <1>5, <1>6 DEF q

\* Every step of the history is a step along the line, or an edit of it.
LEMMA LineStep ==
  ASSUME IInv, HistoryStep
  PROVE  [Line!LineNext]_(Line!vars)
<1> DEFINE l  == past \o <<definition>> \o future
           at == Len(past) + 1
<1>1. /\ past \in Seq(Definitions) /\ Len(past) \in Nat /\ definition \in Definitions
      /\ future \in Seq(Definitions) /\ Len(future) \in Nat
      /\ Depth \in Nat /\ Depth > 0 /\ TypeOK /\ ShortHistory
  BY EditorAssumption DEF IInv, TypeOK
<1>2. /\ l \in Seq(Definitions) /\ Len(l) = Len(past) + 1 + Len(future)
      /\ \A i \in 1..Len(past) : l[i] = past[i]
      /\ l[Len(past) + 1] = definition
      /\ \A i \in 1..Len(future) : l[Len(past) + 1 + i] = future[i]
  BY <1>1, LineAt
<1>3. ASSUME past' \in Seq(Definitions), definition' \in Definitions, future' \in Seq(Definitions)
      PROVE  /\ l' \in Seq(Definitions) /\ Len(l') = Len(past') + 1 + Len(future')
             /\ \A i \in 1..Len(past') : l'[i] = past'[i]
             /\ l'[Len(past') + 1] = definition'
             /\ \A i \in 1..Len(future') : l'[Len(past') + 1 + i] = future'[i]
  BY <1>3, LineAt
<1> HIDE DEF l
<1>4. CASE UNCHANGED <<definition, past, future>>
  BY <1>4 DEF Line!vars
<1>5. CASE past' = <<>> /\ future' = <<>> /\ Safe(definition', used')
  <2>1. Len(l') = 1 /\ Len(past') = 0
    BY <1>3, <1>5 DEF Safe
  <2> QED
    BY <2>1 DEF l, Line!LineNext, Line!Load
<1>6. CASE undo
  <2>1. /\ past' \in Seq(Definitions) /\ future' \in Seq(Definitions) /\ definition' \in Definitions
        /\ Len(past) > 0 /\ Len(past') = Len(past) - 1 /\ Len(future') = Len(future) + 1
        /\ definition' = past[Len(past)] /\ \A i \in 1..Len(past) - 1 : past'[i] = past[i]
        /\ future'[1] = definition /\ \A i \in 1..Len(future) : future'[i + 1] = future[i]
    BY <1>1, <1>6, UndoHistory
  <2>2. /\ l' \in Seq(Definitions) /\ Len(l') = Len(past') + 1 + Len(future')
        /\ \A i \in 1..Len(past') : l'[i] = past'[i]
        /\ l'[Len(past') + 1] = definition'
        /\ \A i \in 1..Len(future') : l'[Len(past') + 1 + i] = future'[i]
    BY <1>3, <2>1
  <2>3. ASSUME NEW i \in 1..Len(l) PROVE l'[i] = l[i]
    <3>1. CASE i \in 1..Len(past) - 1
      <4>1. i \in 1..Len(past') /\ i \in 1..Len(past)
        BY <1>1, <2>1, <3>1
      <4> QED
        BY <1>2, <2>1, <2>2, <3>1, <4>1
    <3>2. CASE i = Len(past)
      BY <1>1, <1>2, <2>1, <2>2, <3>2
    <3>3. CASE i = Len(past) + 1
      <4>1. 1 \in 1..Len(future') /\ Len(past') + 1 + 1 = i
        BY <1>1, <2>1, <3>3
      <4> QED
        BY <1>2, <2>1, <2>2, <3>3, <4>1
    <3>4. CASE i > Len(past) + 1
      <4>1. PICK j \in 1..Len(future) : i = Len(past) + 1 + j
        <5>1. /\ Len(l) = Len(past) + 1 + Len(future)
              /\ i \in Nat /\ i <= Len(l) /\ Len(past) \in Nat /\ Len(future) \in Nat
          BY <1>1, <1>2
        <5>2. i - Len(past) - 1 \in 1..Len(future) /\ i = Len(past) + 1 + (i - Len(past) - 1)
          BY <3>4, <5>1
        <5> QED
          BY <5>2
      <4>2. j + 1 \in 1..Len(future') /\ i = Len(past') + 1 + (j + 1)
        BY <1>1, <2>1, <4>1
      <4> QED
        BY <1>2, <2>1, <2>2, <4>1, <4>2
    <3> QED
      BY <1>1, <1>2, <3>1, <3>2, <3>3, <3>4
  <2>4. l' = l
    <3>1. Len(l') = Len(l)
      BY <1>1, <1>2, <2>1, <2>2
    <3> QED
      BY <1>2, <2>2, <2>3, <3>1, SeqEqual
  <2>5. at > 1 /\ at' = at - 1
    BY <1>1, <2>1
  <2> QED
    BY <2>4, <2>5 DEF l, Line!LineNext, Line!Undo
<1>7. CASE redo
  <2>1. /\ past' \in Seq(Definitions) /\ future' \in Seq(Definitions) /\ definition' \in Definitions
        /\ Len(future) > 0 /\ Len(past') = Len(past) + 1 /\ Len(future') = Len(future) - 1
        /\ definition' = future[1] /\ \A i \in 1..Len(future) - 1 : future'[i] = future[i + 1]
        /\ past'[Len(past) + 1] = definition /\ \A i \in 1..Len(past) : past'[i] = past[i]
    BY <1>1, <1>7, RedoHistory
  <2>2. /\ l' \in Seq(Definitions) /\ Len(l') = Len(past') + 1 + Len(future')
        /\ \A i \in 1..Len(past') : l'[i] = past'[i]
        /\ l'[Len(past') + 1] = definition'
        /\ \A i \in 1..Len(future') : l'[Len(past') + 1 + i] = future'[i]
    BY <1>3, <2>1
  <2>3. ASSUME NEW i \in 1..Len(l) PROVE l'[i] = l[i]
    <3>1. CASE i \in 1..Len(past)
      BY <1>1, <1>2, <2>1, <2>2, <3>1
    <3>2. CASE i = Len(past) + 1
      BY <1>1, <1>2, <2>1, <2>2, <3>2
    <3>3. CASE i = Len(past) + 2
      <4>1. 1 \in 1..Len(future) /\ i = Len(past) + 1 + 1 /\ i = Len(past') + 1
        BY <1>1, <2>1, <3>3
      <4> QED
        BY <1>2, <2>1, <2>2, <4>1
    <3>4. CASE i > Len(past) + 2
      <4>1. PICK j \in 1..Len(future) - 1 : i = Len(past') + 1 + j
        <5>1. i - Len(past) - 2 \in 1..Len(future) - 1 /\ i = Len(past') + 1 + (i - Len(past) - 2)
          BY <1>1, <1>2, <2>1, <3>4
        <5> QED
          BY <5>1
      <4>2. j + 1 \in 1..Len(future) /\ j \in 1..Len(future') /\ i = Len(past) + 1 + (j + 1)
        BY <1>1, <2>1, <4>1
      <4>3. l'[i] = future'[j] /\ l[i] = future[j + 1]
        BY <1>2, <2>2, <4>1, <4>2
      <4> QED
        BY <2>1, <4>1, <4>3
    <3> QED
      BY <1>1, <1>2, <3>1, <3>2, <3>3, <3>4
  <2>4. l' = l
    <3>1. Len(l') = Len(l)
      BY <1>1, <1>2, <2>1, <2>2
    <3> QED
      BY <1>2, <2>2, <2>3, <3>1, SeqEqual
  <2>5. at < Len(l) /\ at' = at + 1
    BY <1>1, <1>2, <2>1
  <2> QED
    BY <2>4, <2>5 DEF l, Line!LineNext, Line!Redo
<1>8. CASE changedState(definition') /\ Safe(definition', used')
  <2>1. /\ past' \in Seq(Definitions) /\ future' = <<>> /\ definition' \in Definitions
        /\ Len(past') = IF Len(past) + 1 > Depth THEN Depth ELSE Len(past) + 1
        /\ \A i \in 1..Len(past') :
             past'[i] = IF i = Len(past') THEN definition ELSE past[i + Len(past) + 1 - Len(past')]
    BY <1>1, <1>8, EditHistory DEF Safe
  <2>2. /\ l' \in Seq(Definitions) /\ Len(l') = Len(past') + 1
        /\ \A i \in 1..Len(past') : l'[i] = past'[i]
    BY <1>3, <2>1
  <2> DEFINE first == IF at > Depth THEN at - Depth + 1 ELSE 1
             kept  == SubSeq(l, first, at)
  <2>3. first \in 1..at /\ at \in 1..Len(l) /\ at - first + 1 = Len(past')
    BY <1>1, <1>2, <2>1
  <2>4. Len(kept) = Len(past') /\ \A i \in 1..Len(past') : kept[i] = l[first + i - 1]
    <3>1. \A i \in first..at : l[i] \in Definitions
      BY <1>1, <1>2, <2>3
    <3>2. /\ Len(SubSeq(l, first, at)) = IF first <= at THEN at - first + 1 ELSE 0
          /\ \A i \in 1..at - first + 1 : SubSeq(l, first, at)[i] = l[first + i - 1]
      BY <1>1, <2>3, <3>1, SubSeqProperties
    <3> QED
      BY <2>3, <3>2
  <2>5. ASSUME NEW i \in 1..Len(past') PROVE l'[i] = kept[i]
    <3>1. first + i - 1 = i + Len(past) + 1 - Len(past') /\ first + i - 1 \in 1..at
          /\ (i = Len(past') <=> first + i - 1 = at)
      BY <1>1, <2>1, <2>3
    <3>2. CASE i = Len(past')
      BY <1>2, <2>1, <2>2, <2>4, <3>1, <3>2, ZenonT(30)
    <3>3. CASE i # Len(past')
      <4>1. first + i - 1 \in 1..Len(past)
        BY <1>1, <3>1, <3>3
      <4> QED
        BY <1>2, <2>1, <2>2, <2>4, <3>1, <3>3, <4>1, ZenonT(30)
    <3> QED
      BY <3>2, <3>3
  <2> HIDE DEF first
  <2>6. Line!Kept = kept
    BY DEF Line!Kept, l, first
  <2> HIDE DEF kept
  <2>7. at' = Len(kept) + 1 /\ Len(l') = at' /\ \A i \in 1..Len(kept) : l'[i] = kept[i]
    BY <2>2, <2>4, <2>5
  <2>8. Line!Edit
    BY <2>6, <2>7 DEF Line!Edit, l
  <2> QED
    BY <2>8 DEF Line!LineNext
<1> QED
  BY <1>4, <1>5, <1>6, <1>7, <1>8 DEF HistoryStep

\* The history is a line of definitions: undo and redo walk it and lose nothing, and only a new edit
\* drops the oldest, though past and future are cut to their limits independently of each other.
THEOREM ImplementsTimeline == Spec => HistoryIsALine
<1>1. Init => Line!LineInit
  <2> SUFFICES ASSUME Init PROVE Line!LineInit
    OBVIOUS
  <2>1. past = <<>> /\ future = <<>> /\ TypeOK
    BY InitInv DEF Init, IInv
  <2>2. Len(past \o <<definition>> \o future) = Len(past) + 1 + Len(future)
    BY <2>1, LineAt DEF TypeOK
  <2> QED
    BY <2>1, <2>2 DEF Line!LineInit
<1>2. IInv /\ [Next]_vars => [Line!LineNext]_(Line!vars)
  <2> SUFFICES ASSUME IInv, [Next]_vars PROVE [Line!LineNext]_(Line!vars)
    OBVIOUS
  <2>1. HistoryStep
    BY HistoryOfNext DEF vars, HistoryStep
  <2> QED
    BY <2>1, LineStep
<1> QED
  BY <1>1, <1>2, Invariant, PTL DEF Spec, HistoryIsALine, Line!LineSpec

-------------------------------------------------------------------------------
(* The scene                                                               *)

Made(n)  == threeObj[n] # NoObject
Drawn(l) == lineObj[l] # "none"

\* The library makes and removes all the objects of a flow together: between its steps a frame finds
\* every node of the flow with its object, or none.
AllOrNone(S, P(_)) == (\A x \in S : P(x)) \/ (\A x \in S : ~P(x))

SceneInv ==
  /\ data \in Flows
  /\ threeObj = [n \in SceneNodes |-> threeObj[n]] /\ lineObj = [l \in SceneLinks |-> lineObj[l]]
  /\ AllOrNone(data.nodes, Made) /\ AllOrNone(data.links, Drawn)
  /\ BatchesAreCurrent

\* The loop is due when the scene is shown first.
LEMMA SceneStarts == SceneInit => SceneInv
BY SceneAssumed DEF SceneAssumption, SceneInit, SceneInv, AllOrNone, Made, Drawn, BatchesAreCurrent

\* A frame that makes the batches stops asking for them only when they are current.
LEMMA RebuildIsCurrent ==
  ASSUME SceneInv, Rebuild, UNCHANGED <<data, nodeStates, selectedId, threeObj>>
  PROVE  SceneInv'
<1>1. data.nodes \subseteq SceneNodes /\ data.links \subseteq SceneLinks
  BY SceneAssumed DEF SceneAssumption, SceneInv
<1>2. lineObj' = [l \in SceneLinks |-> lineObj'[l]] /\ AllOrNone(data.links, Drawn)'
  <2>1. CASE Resolved = {}
    BY <2>1 DEF Rebuild, SyncLinks, SceneInv, AllOrNone, Drawn
  <2>2. CASE Resolved # {}
    <3>1. lineObj' = [l \in SceneLinks |-> IF l \in Resolved THEN "hidden" ELSE lineObj[l]]
      BY <2>2 DEF Rebuild, SyncLinks
    <3>2. \A l \in data.links : lineObj'[l] # "none" <=> lineObj[l] # "none"
      BY <1>1, <3>1 DEF Resolved
    <3>3. QED
      BY <3>1, <3>2 DEF SceneInv, AllOrNone, Drawn
  <2>3. QED
    BY <2>1, <2>2
<1>3. ASSUME ~rebuildBatches' PROVE batches' = {Look(n) : n \in data.nodes}
  <2>1. data.nodes = {} \/ Listos # {}
    BY <1>3 DEF Rebuild, Synced
  <2>2. Listos = data.nodes
    BY <2>1 DEF Listos, SceneInv, AllOrNone, Made
  <2>3. batches' = {Look(n) : n \in Listos}
    BY <2>1 DEF Rebuild, SyncBodies
  <2>4. QED
    BY <2>2, <2>3
<1>4. ASSUME ~rebuildBatches', data.links # {} PROVE tubes' = data.links
  <2>1. Resolved # {}
    BY <1>3, <1>4 DEF Rebuild, Synced
  <2>2. Resolved = data.links
    BY <2>1 DEF Resolved, SceneInv, AllOrNone, Drawn
  <2>3. QED
    BY <2>1, <2>2 DEF Rebuild, SyncLinks
<1>5. {Look(n) : n \in data.nodes}' = {Look(n) : n \in data.nodes}
  BY DEF Look
<1>6. BatchesAreCurrent'
  BY <1>3, <1>4, <1>5 DEF BatchesAreCurrent
<1>7. QED
  BY <1>2, <1>6 DEF SceneInv, AllOrNone, Made

\* Every step of the editor, of the library and of the loop keeps the invariant.
LEMMA SceneStep == ASSUME SceneInv, [SceneNext]_sceneVars PROVE SceneInv'
<1>1. CASE ChangeFlow
  BY <1>1, SceneAssumed DEF ChangeFlow, BatchesAreDue, BatchesAreCurrent, SceneInv, AllOrNone, Made, Drawn,
              SceneAssumption
<1>2. CASE ChangeLook
  BY <1>2 DEF ChangeLook, BatchesAreDue, BatchesAreCurrent, SceneInv, AllOrNone, Made, Drawn
<1>3. CASE MoveCamera
  BY <1>3 DEF MoveCamera, lots, BatchesAreCurrent, Look, SceneInv, AllOrNone, Made, Drawn
<1>4. CASE LibraryClears
  BY <1>4, SceneAssumed DEF LibraryClears, BatchesAreCurrent, Look, SceneInv, AllOrNone, Made, Drawn,
              SceneAssumption
<1>5. CASE LibraryCreates
  <2>1. /\ UNCHANGED <<data, nodeStates, selectedId, batches, tubes, rebuildBatches>>
        /\ threeObj' = [n \in SceneNodes |-> IF n \in data.nodes THEN Look(n) ELSE NoObject]
        /\ lineObj' = [l \in SceneLinks |-> IF l \in data.links THEN "visible" ELSE "none"]
    BY <1>5 DEF LibraryCreates, lots
  <2>2. \A n : Look(n) # NoObject
    BY DEF Look, NoObject
  <2>3. data.nodes \subseteq SceneNodes /\ data.links \subseteq SceneLinks
    BY SceneAssumed DEF SceneAssumption, SceneInv
  <2>4. AllOrNone(data.nodes, Made)' /\ AllOrNone(data.links, Drawn)'
    BY <2>1, <2>2, <2>3 DEF AllOrNone, Made, Drawn, NoObject
  <2>5. BatchesAreCurrent'
    BY <2>1 DEF BatchesAreCurrent, Look, SceneInv
  <2>6. QED
    BY <2>1, <2>4, <2>5 DEF SceneInv
<1>6. CASE Frame
  <2>1. UNCHANGED <<data, nodeStates, selectedId, threeObj>> /\ (Rebuild \/ Refresh)
    BY <1>6 DEF Frame
  <2>2. CASE Rebuild
    BY <2>1, <2>2, RebuildIsCurrent
  <2>3. CASE Refresh
    BY <2>1, <2>3, SceneAssumed DEF Refresh, BatchesAreCurrent, Look, SceneInv, AllOrNone, Made, Drawn,
                      SceneAssumption
  <2>4. QED
    BY <2>1, <2>2, <2>3
<1>7. CASE UNCHANGED sceneVars
  BY <1>7 DEF sceneVars, BatchesAreCurrent, Look, SceneInv, AllOrNone, Made, Drawn
<1>8. QED
  BY <1>1, <1>2, <1>3, <1>4, <1>5, <1>6, <1>7 DEF SceneNext

\* Once the loop has stopped asking for the batches they show the flow as it is: every node with its
\* state and its selection, no other node, and every link, whatever the library does in between.
THEOREM ScreenIsCurrent == FairSpec => []BatchesAreCurrent
<1>1. SceneInv /\ [SceneNext]_sceneVars => SceneInv'
  BY SceneStep
<1>2. SceneInv => BatchesAreCurrent
  BY DEF SceneInv
<1>3. SceneInit => SceneInv
  BY SceneStarts
<1>4. QED
  BY <1>1, <1>2, <1>3, PTL DEF FairSpec

-------------------------------------------------------------------------------
(* The run as the editor shows it (RunStream).                             *)

StreamStatuses == {"idle", "running", "paused", "completed", "cancelled", "failed"}
StreamEvents   == [run : Runs \cup {NoRun}, sequence : Nat, type : Kinds]
StreamLinks    == [run : Runs, stopped : BOOLEAN, phase : {"ticket", "opening", "open", "retry"}, last : Nat, attempts : Nat]
ControlKinds   == {"pause", "resume", "step", "cancel"}

StreamTypes ==
  /\ journal \in [Runs -> Seq(Kinds)]
  /\ source \in {"api", "local"} /\ run \in Runs \cup {NoRun} /\ status \in StreamStatuses
  /\ visible \subseteq StreamEvents /\ cursor \in Nat
  /\ links \subseteq StreamLinks
  /\ starting \in [phase : {"idle", "asked", "answered"}, run : Runs \cup {NoRun}]
  /\ control \in {Idle} \cup [phase : {"asked", "done", "refused"}, run : Runs, kind : ControlKinds]

\* What is shown, followed, asked or answered is a run that was created, and an answer to a start
\* is of a run that nobody has shown yet.
StreamOrigins ==
  /\ (source = "api" => run \in Runs /\ Created(run)) /\ (source = "local" => run = NoRun)
  /\ \A l \in links : Created(l.run) /\ l.last <= Len(journal[l.run])
  /\ control # Idle => Created(control.run)
  /\ starting.phase = "answered" =>
       /\ starting.run \in Runs /\ Created(starting.run) /\ run # starting.run
       /\ \A l \in links : l.run # starting.run

StreamFollows ==
  /\ \A l \in Current : source = "api" /\ l.run = run /\ status \in Followed
  /\ \A l, m \in Current : l = m

\* A control that was accepted left its mark: the run is not what the control was there to end.
StreamControls ==
  control.phase = "done" =>
    /\ control.kind = "pause"  => JournalStatus(control.run) # "running"
    /\ control.kind = "resume" => JournalStatus(control.run) # "paused"

\* The first k events are shown, no link is further, the nodes are as the latest of them left
\* them, and the status is that of the journal unless an event that says otherwise is to come.
ShownUpTo(k) ==
  /\ visible = {EventAt(n) : n \in 1..k}
  /\ \A l \in links : l.last <= k
  /\ \A n \in 1..k : journal[run][n] = "node" => node.run = run /\ node.sequence >= n
  /\ status = JournalStatus(run) \/ \E n \in (k + 1)..Len(journal[run]) : journal[run][n] # "node"

StreamShows == Alone /\ source = "api" => \E k \in 0..Len(journal[run]) : ShownUpTo(k)

StreamInv == StreamTypes /\ StreamOrigins /\ StreamFollows /\ StreamControls /\ StreamShows

\* The last event that is no node decides the status of a log.
LEMMA StatusOfLast ==
  ASSUME NEW log \in Seq(Kinds), NEW i \in DOMAIN log, log[i] # "node",
         \A j \in (i + 1)..Len(log) : log[j] = "node"
  PROVE  StatusOf(log) = StatusAfter(log[i], "running")
<1>1. DOMAIN log = 1..Len(log) /\ Len(log) \in Nat
  OBVIOUS
<1>2. i \in Told(log) /\ Told(log) \subseteq 1..Len(log)
  BY <1>1 DEF Told
<1>3. \A j \in Told(log) : j <= i
  BY <1>1 DEF Told
<1> DEFINE last == CHOOSE x \in Told(log) : \A j \in Told(log) : j <= x
<1>4. last \in Told(log) /\ \A j \in Told(log) : j <= last
  BY <1>2, <1>3
<1>5. last = i
  BY <1>1, <1>2, <1>3, <1>4
<1>6. StatusOf(log) = StatusAfter(log[last], "running")
  BY <1>2 DEF StatusOf
<1> QED
  BY <1>5, <1>6

\* A set of positions of a log has a last one.
LEMMA HasLatest ==
  ASSUME NEW size \in Nat, NEW T \in SUBSET (1..size), T # {}
  PROVE  \E i \in T : \A j \in T : j <= i
<1> DEFINE U == {n \in Nat : \E i \in T : n = size - i}
<1>1. U # {} /\ U \subseteq Nat
  <2>1. PICK i \in T : TRUE
    OBVIOUS
  <2>2. size - i \in U
    BY <2>1
  <2> QED
    BY <2>2
<1> HIDE DEF U
<1>2. PICK n \in U : \A m \in U : n <= m
  BY <1>1, LeastNumber, Zenon
<1>3. PICK i \in T : n = size - i
  BY <1>2 DEF U
<1>4. \A j \in T : size - j \in U
  BY DEF U
<1>5. \A j \in T : n <= size - j
  BY <1>2, <1>4
<1> QED
  BY <1>3, <1>5

\* What one more event does to the status of a log.
LEMMA StatusOfAppend ==
  ASSUME NEW log \in Seq(Kinds), NEW type \in Kinds
  PROVE  StatusOf(Append(log, type)) = IF type = "node" THEN StatusOf(log) ELSE StatusAfter(type, "running")
<1> DEFINE more == Append(log, type)
<1>1. /\ more \in Seq(Kinds) /\ Len(more) = Len(log) + 1 /\ Len(log) \in Nat
      /\ DOMAIN more = 1..Len(more) /\ DOMAIN log = 1..Len(log)
      /\ more[Len(more)] = type /\ \A j \in 1..Len(log) : more[j] = log[j]
  OBVIOUS
<1>2. CASE type # "node"
  <2>1. Len(more) \in DOMAIN more /\ \A j \in (Len(more) + 1)..Len(more) : more[j] = "node"
    BY <1>1
  <2> HIDE DEF more
  <2>2. StatusOf(more) = StatusAfter(type, "running")
    BY <1>1, <1>2, <2>1, StatusOfLast
  <2> QED
    BY <1>2, <2>2 DEF more
<1>3. CASE type = "node"
  <2>1. Told(more) = Told(log)
    BY <1>1, <1>3 DEF Told
  <2>2. \A i \in Told(log) : more[i] = log[i]
    BY <1>1 DEF Told
  <2> HIDE DEF more
  <2>3. CASE Told(log) = {}
    BY <1>3, <2>1, <2>3 DEF StatusOf, more
  <2>4. CASE Told(log) # {}
    <3> DEFINE last == CHOOSE i \in Told(log) : \A j \in Told(log) : j <= i
    <3>1. PICK i \in Told(log) : \A j \in Told(log) : j <= i
      <4>1. Told(log) \subseteq 1..Len(log)
        BY <1>1 DEF Told
      <4> QED
        BY <1>1, <2>4, <4>1, HasLatest
    <3>2. last \in Told(log)
      BY <3>1
    <3>3. StatusOf(more) = StatusAfter(more[CHOOSE x \in Told(more) : \A y \in Told(more) : y <= x], "running")
      BY <2>1, <2>4 DEF StatusOf
    <3>4. StatusOf(more) = StatusAfter(more[last], "running")
      BY <2>1, <3>3
    <3>5. StatusOf(log) = StatusAfter(log[last], "running")
      BY <2>4 DEF StatusOf
    <3> HIDE DEF last
    <3> QED
      BY <1>3, <2>2, <3>2, <3>4, <3>5 DEF more
  <2> QED
    BY <2>3, <2>4
<1> QED
  BY <1>2, <1>3

\* As long as the events fit, none is cut.
LEMMA NewestIsAll ==
  ASSUME NEW k \in Nat, k <= Window, NEW f, NEW S, S = {f[n] : n \in 1..k},
         \A n \in 1..k : f[n].sequence = n
  PROVE  Newest(S) = S
<1>1. ASSUME NEW e \in S
      PROVE  Cardinality({x \in S : x.sequence > e.sequence}) < Window
  <2>1. PICK m \in 1..k : e = f[m]
    OBVIOUS
  <2> DEFINE later == {x \in S : x.sequence > e.sequence}
             g == [n \in (m + 1)..k |-> f[n]]
  <2>2. later = {f[n] : n \in (m + 1)..k}
    <3>1. \A n \in (m + 1)..k : f[n] \in later
      BY <2>1
    <3>2. \A x \in later : \E n \in (m + 1)..k : x = f[n]
      BY <2>1
    <3> QED
      BY <3>1, <3>2
  <2>3. g \in Surjection((m + 1)..k, later)
    BY <2>2 DEF Surjection
  <2>4. /\ IsFiniteSet((m + 1)..k)
        /\ Cardinality((m + 1)..k) = IF m + 1 > k THEN 0 ELSE k - (m + 1) + 1
    BY FS_Interval
  <2>5. Cardinality(later) <= Cardinality((m + 1)..k) /\ IsFiniteSet(later)
    BY <2>3, <2>4, FS_Surjection
  <2>6. Cardinality(later) \in Nat
    BY <2>5, FS_CardinalityType
  <2>7. Cardinality((m + 1)..k) < k
    BY <2>4
  <2> QED
    BY <2>4, <2>5, <2>6, <2>7, StreamAssumption
<1> QED
  BY <1>1 DEF Newest
\* The links after the effect: those that were there, stopped if the effect ran again, and one for
\* the run that is shown then.
LEMMA LinksOfEffect ==
  ASSUME NEW ls \in SUBSET StreamLinks, run' \in Runs \cup {NoRun}, Effect(ls),
         \A l \in ls : l.stopped = FALSE => source = "api" /\ l.run = run /\ status \in Followed,
         \A l, m \in ls : l.stopped = FALSE /\ m.stopped = FALSE => l = m
  PROVE  /\ links' \subseteq StreamLinks /\ StreamFollows'
         /\ \A l \in links' : \/ \E m \in ls : l.run = m.run /\ l.last = m.last
                              \/ source' = "api" /\ l.run = run' /\ l.last = 0
<1> DEFINE same == source' = source /\ run' = run /\ status' = status
<1>1. CASE same
  <2>1. links' = ls
    BY <1>1 DEF Effect
  <2>2. StreamFollows'
    BY <1>1, <2>1 DEF StreamFollows, Current, StreamLinks
  <2> QED
    BY <2>1, <2>2
<1>2. CASE ~same
  <2>1. links' = Cleanup(ls) \cup Follow(source', run', status')
    BY <1>2 DEF Effect
  <2>2. ASSUME NEW l \in Cleanup(ls)
        PROVE  l \in StreamLinks /\ l.stopped = TRUE /\ \E m \in ls : l.run = m.run /\ l.last = m.last
    <3>1. PICK m \in ls : l \in IF m.stopped THEN {m} ELSE Stop(m)
      BY DEF Cleanup
    <3>2. m \in StreamLinks /\ m.stopped \in BOOLEAN
      BY DEF StreamLinks
    <3>3. CASE m.stopped = TRUE
      BY <3>1, <3>2, <3>3
    <3>4. CASE m.stopped = FALSE
      <4>1. l = [m EXCEPT !.stopped = TRUE]
        BY <3>1, <3>4 DEF Stop
      <4> QED
        BY <3>2, <4>1 DEF StreamLinks
    <3> QED
      BY <3>2, <3>3, <3>4
  <2>3. ASSUME NEW l \in Follow(source', run', status')
        PROVE  /\ l \in StreamLinks /\ l = Link(run') /\ source' = "api" /\ status' \in Followed
               /\ l.run = run' /\ l.last = 0
    <3>1. source' = "api" /\ run' # NoRun /\ status' \in Followed /\ l = Link(run')
      BY <2>3 DEF Follow
    <3> QED
      BY <3>1 DEF Link, StreamLinks
  <2>4. StreamFollows'
    <3>1. \A l \in Current' : l \in Follow(source', run', status')
      <4>1. \A l \in Current' : l \in links' /\ ~l.stopped
        BY DEF Current
      <4> QED
        BY <2>1, <2>2, <4>1
    <3> QED
      BY <2>3, <3>1 DEF StreamFollows
  <2> QED
    BY <2>1, <2>2, <2>3, <2>4
<1> QED
  BY <1>1, <1>2

\* What is alone was alone before: logs only grow.
Growing == \A r \in Runs : Len(journal[r]) <= Len(journal'[r])

LEMMA AloneBefore ==
  ASSUME StreamTypes, StreamTypes', Growing, Alone'
  PROVE  Alone
<1>1. \A r \in Runs : Created(r) => Created(r)'
  <2> TAKE r \in Runs
  <2>1. journal[r] \in Seq(Kinds) /\ journal'[r] \in Seq(Kinds)
    BY DEF StreamTypes
  <2> QED
    BY <2>1 DEF Created, Growing
<1>2. \A r \in Runs : Len(journal[r]) \in Nat /\ Len(journal'[r]) \in Nat
  BY DEF StreamTypes
<1> QED
  BY <1>1, <1>2, StreamAssumption DEF Alone, Growing

\* The API appends an event to a log that is there: what is shown stays shown.
LEMMA JournalGrows ==
  ASSUME StreamInv, NEW r \in Runs, NEW type \in Kinds, Append1(r, type), UNCHANGED <<storeVars, links>>
  PROVE  /\ journal' \in [Runs -> Seq(Kinds)] /\ Growing
         /\ journal'[r] = Append(journal[r], type) /\ (\A s \in Runs \ {r} : journal'[s] = journal[s])
         /\ \A s \in Runs : Created(s)' <=> Created(s) \/ s = r
         /\ JournalStatus(r)' = IF type = "node" THEN JournalStatus(r) ELSE StatusAfter(type, "running")
<1>1. journal \in [Runs -> Seq(Kinds)]
  BY DEF StreamInv, StreamTypes
<1>2. journal' = [journal EXCEPT ![r] = Append(journal[r], type)]
  BY <1>1 DEF Append1
<1>3. journal[r] \in Seq(Kinds) /\ Append(journal[r], type) \in Seq(Kinds) /\ Append(journal[r], type) # <<>>
      /\ Len(Append(journal[r], type)) = Len(journal[r]) + 1
  BY <1>1
<1>4. journal' \in [Runs -> Seq(Kinds)] /\ journal'[r] = Append(journal[r], type)
      /\ \A s \in Runs \ {r} : journal'[s] = journal[s]
  BY <1>1, <1>2, <1>3
<1>5. Growing
  <2> SUFFICES ASSUME NEW s \in Runs PROVE Len(journal[s]) <= Len(journal'[s])
    BY DEF Growing
  <2>1. Len(journal[s]) \in Nat
    BY <1>1
  <2> QED
    BY <1>3, <1>4, <2>1
<1>6. \A s \in Runs : Created(s)' <=> Created(s) \/ s = r
  BY <1>3, <1>4 DEF Created
<1>7. JournalStatus(r)' = IF type = "node" THEN JournalStatus(r) ELSE StatusAfter(type, "running")
  BY <1>3, <1>4, StatusOfAppend DEF JournalStatus
<1> QED
  BY <1>4, <1>5, <1>6, <1>7

LEMMA JournalGrowsUnseen ==
  ASSUME StreamInv, StreamTypes', NEW r \in Runs, NEW type \in Kinds, Append1(r, type),
         UNCHANGED <<storeVars, links>>
  PROVE  StreamShows'
<1> SUFFICES ASSUME Alone', source = "api"
             PROVE  \E k \in 0..Len(journal'[run]) : ShownUpTo(k)'
  BY DEF StreamShows, storeVars
<1>1. /\ journal' \in [Runs -> Seq(Kinds)] /\ Growing
      /\ journal'[r] = Append(journal[r], type)
      /\ \A s \in Runs : Created(s)' <=> Created(s) \/ s = r
      /\ JournalStatus(r)' = IF type = "node" THEN JournalStatus(r) ELSE StatusAfter(type, "running")
  BY JournalGrows
<1>2. Alone
  BY <1>1, AloneBefore DEF StreamInv
<1>3. run \in Runs /\ Created(run)
  BY DEF StreamInv, StreamOrigins
<1>4. run = r
  BY <1>1, <1>3 DEF Alone
<1>5. PICK k \in 0..Len(journal[r]) : ShownUpTo(k)
  BY <1>2, <1>4 DEF StreamInv, StreamShows
<1>6. /\ journal[r] \in Seq(Kinds) /\ Len(journal[r]) \in Nat /\ Len(journal'[r]) = Len(journal[r]) + 1
      /\ \A n \in 1..Len(journal[r]) : journal'[r][n] = journal[r][n]
      /\ journal'[r][Len(journal[r]) + 1] = type
  BY <1>1 DEF StreamInv, StreamTypes
<1>7. visible' = {EventAt(n)' : n \in 1..k}
  <2>1. \A n \in 1..k : EventAt(n)' = EventAt(n)
    BY <1>4, <1>6 DEF EventAt, storeVars
  <2> QED
    BY <1>5, <2>1 DEF ShownUpTo, storeVars
<1>8. (\A l \in links' : l.last <= k)
      /\ \A n \in 1..k : journal'[run'][n] = "node" => node'.run = run' /\ node'.sequence >= n
  <2>1. (\A l \in links : l.last <= k)
        /\ \A n \in 1..k : journal[r][n] = "node" => node.run = r /\ node.sequence >= n
    BY <1>4, <1>5 DEF ShownUpTo
  <2>2. links' = links /\ run' = r /\ node' = node
    BY <1>4 DEF storeVars
  <2>3. \A n \in 1..k : journal'[r][n] = journal[r][n]
    BY <1>6
  <2> QED
    BY <2>1, <2>2, <2>3
<1>9. status' = JournalStatus(run)' \/ \E n \in (k + 1)..Len(journal'[run']) : journal'[run'][n] # "node"
  <2>1. run' = r /\ status' = status
    BY <1>4 DEF storeVars
  <2>2. status = JournalStatus(r) \/ \E n \in (k + 1)..Len(journal[r]) : journal[r][n] # "node"
    BY <1>4, <1>5 DEF ShownUpTo
  <2>3. CASE type = "node"
    <3>1. JournalStatus(run)' = JournalStatus(r)
      BY <1>1, <1>4, <2>1, <2>3 DEF JournalStatus
    <3>2. \A n \in (k + 1)..Len(journal[r]) : n \in (k + 1)..Len(journal'[r]) /\ journal'[r][n] = journal[r][n]
      BY <1>6
    <3> QED
      BY <2>1, <2>2, <3>1, <3>2
  <2>4. CASE type # "node"
    BY <1>6, <2>1, <2>4
  <2> QED
    BY <2>3, <2>4
<1> QED
  BY <1>4, <1>6, <1>7, <1>8, <1>9 DEF ShownUpTo, storeVars
\* A request goes out or ends, or a link makes a step that brings no event.
RequestStep ==
  /\ starting' = starting \/ starting' \in [phase : {"idle", "asked"}, run : {NoRun}]
  /\ \/ control' \in {control, Idle}
     \/ /\ control' \in [phase : {"asked", "refused"}, run : Runs, kind : ControlKinds]
        /\ Created(control'.run)

LEMMA StoreKept ==
  ASSUME StreamInv, UNCHANGED <<journal, storeVars>>, RequestStep, links' \subseteq StreamLinks, StreamFollows',
         \A l \in links' : \E m \in links : l.run = m.run /\ l.last = m.last
  PROVE  StreamInv'
<1>1. /\ journal' = journal /\ source' = source /\ run' = run /\ status' = status
      /\ visible' = visible /\ node' = node /\ cursor' = cursor
  BY DEF storeVars
<1>2. StreamTypes'
  BY <1>1 DEF StreamInv, StreamTypes, RequestStep, Idle
<1>3. \A r \in Runs : Created(r)' = Created(r) /\ JournalStatus(r)' = JournalStatus(r)
  BY <1>1 DEF Created, JournalStatus
<1>4. StreamOrigins'
  <2>1. (source' = "api" => run' \in Runs /\ Created(run)') /\ (source' = "local" => run' = NoRun)
    BY <1>1, <1>3 DEF StreamInv, StreamOrigins
  <2>2. \A l \in links' : Created(l.run)' /\ l.last <= Len(journal'[l.run])
    BY <1>1, <1>3 DEF StreamInv, StreamOrigins, StreamTypes, StreamLinks
  <2>3. control' # Idle => Created(control.run)'
    BY <1>1 DEF StreamInv, StreamOrigins, RequestStep, Created
  <2>4. starting'.phase = "answered" =>
          /\ starting'.run \in Runs /\ Created(starting.run)' /\ run' # starting'.run
          /\ \A l \in links' : l.run # starting'.run
    <3> SUFFICES ASSUME starting'.phase = "answered"
                 PROVE  /\ starting'.run \in Runs /\ Created(starting.run)' /\ run' # starting'.run
                        /\ \A l \in links' : l.run # starting'.run
      OBVIOUS
    <3>1. starting' = starting
      BY DEF RequestStep
    <3>2. /\ starting.run \in Runs /\ Created(starting.run) /\ run # starting.run
          /\ \A l \in links : l.run # starting.run
      BY <3>1 DEF StreamInv, StreamOrigins
    <3> QED
      BY <1>1, <3>1, <3>2 DEF Created
  <2> QED
    BY <2>1, <2>2, <2>3, <2>4 DEF StreamOrigins
<1>5. StreamControls'
  <2>1. CASE control' = control
    BY <1>1, <2>1 DEF StreamInv, StreamControls, JournalStatus
  <2>2. CASE control'.phase # "done"
    BY <2>2 DEF StreamControls
  <2> QED
    BY <2>1, <2>2 DEF RequestStep, Idle
<1>6. StreamShows'
  <2> SUFFICES ASSUME Alone', source = "api"
               PROVE  \E k \in 0..Len(journal[run]) : ShownUpTo(k)'
    BY <1>1 DEF StreamShows
  <2>1. Alone
    BY <1>1 DEF Alone, Created
  <2>2. PICK k \in 0..Len(journal[run]) : ShownUpTo(k)
    BY <2>1 DEF StreamInv, StreamShows
  <2>3. visible' = {EventAt(n)' : n \in 1..k}
    BY <1>1, <2>2 DEF ShownUpTo, EventAt
  <2>4. \A l \in links' : l.last <= k
    BY <2>2 DEF ShownUpTo
  <2>5. /\ \A n \in 1..k : journal'[run'][n] = "node" => node'.run = run' /\ node'.sequence >= n
        /\ status' = JournalStatus(run)' \/ \E n \in (k + 1)..Len(journal'[run']) : journal'[run'][n] # "node"
    BY <1>1, <2>2 DEF ShownUpTo, JournalStatus
  <2> QED
    BY <2>3, <2>4, <2>5 DEF ShownUpTo
<1> QED
  BY <1>2, <1>4, <1>5, <1>6 DEF StreamInv

\* A link makes a step of its own: it is replaced by one of the same run, or it goes.
LEMMA LinkStep ==
  ASSUME StreamInv, UNCHANGED <<journal, storeVars, starting, control>>,
         NEW l \in links, NEW T \in SUBSET StreamLinks, links' = (links \ {l}) \cup T,
         \A m \in T : m.run = l.run /\ m.stopped = l.stopped /\ m.last = l.last,
         \A m, n \in T : m = n
  PROVE  StreamInv'
<1>1. links' \subseteq StreamLinks
  BY DEF StreamInv, StreamTypes
<1>2. \A m \in links' : \E n \in links : m.run = n.run /\ m.last = n.last
  OBVIOUS
<1>3. StreamFollows'
  <2>1. source' = source /\ run' = run /\ status' = status
    BY DEF storeVars
  <2>2. \A m \in Current' : m \in links' /\ ~m.stopped
    BY DEF Current
  <2>3. \A m \in links : ~m.stopped => source = "api" /\ m.run = run /\ status \in Followed
    BY DEF StreamInv, StreamFollows, Current
  <2>4. \A m, n \in links : ~m.stopped /\ ~n.stopped => m = n
    BY DEF StreamInv, StreamFollows, Current
  <2>5. \A m \in Current' : source' = "api" /\ m.run = run' /\ status' \in Followed
    BY <2>1, <2>2, <2>3
  <2>6. \A m, n \in Current' : m = n
    BY <2>2, <2>4
  <2> QED
    BY <2>5, <2>6 DEF StreamFollows
<1>4. RequestStep
  BY DEF RequestStep
<1> QED
  BY <1>1, <1>2, <1>3, <1>4, StoreKept

\* The requests that change nothing that is shown.
LEMMA RequestAlone ==
  ASSUME StreamInv, UNCHANGED <<journal, storeVars, links>>, RequestStep
  PROVE  StreamInv'
<1>1. links' \subseteq StreamLinks /\ \A l \in links' : \E m \in links : l.run = m.run /\ l.last = m.last
  BY DEF StreamInv, StreamTypes
<1>2. StreamFollows'
  BY DEF StreamInv, StreamFollows, Current, storeVars
<1> QED
  BY <1>1, <1>2, StoreKept
\* The API plays a run, is interrupted, serves a control or creates a run: the editor sees nothing.
LEMMA JournalStep ==
  ASSUME StreamInv, NEW r \in Runs, NEW type \in Kinds, Append1(r, type),
         UNCHANGED <<storeVars, links>>, StreamControls',
         starting' = starting \/ (starting' = [phase |-> "answered", run |-> r] /\ ~Created(r)),
         control' = control \/ (control # Idle /\ control' = [control EXCEPT !.phase = "done"])
  PROVE  StreamInv'
<1>1. /\ journal' \in [Runs -> Seq(Kinds)] /\ Growing
      /\ journal'[r] = Append(journal[r], type)
      /\ \A s \in Runs : Created(s)' <=> Created(s) \/ s = r
  BY JournalGrows
<1>2. /\ source' = source /\ run' = run /\ status' = status /\ links' = links
      /\ visible' = visible /\ node' = node /\ cursor' = cursor
  BY DEF storeVars
<1>3. starting' \in [phase : {"idle", "asked", "answered"}, run : Runs \cup {NoRun}]
  BY DEF StreamInv, StreamTypes
<1>4. /\ control' \in {Idle} \cup [phase : {"asked", "done", "refused"}, run : Runs, kind : ControlKinds]
      /\ control' # Idle => control # Idle /\ control'.run = control.run
  <2>1. CASE control' = control
    BY <2>1 DEF StreamInv, StreamTypes
  <2>2. CASE control' # control
    <3>1. control \in [phase : {"asked", "done", "refused"}, run : Runs, kind : ControlKinds]
      BY <2>2 DEF StreamInv, StreamTypes
    <3> QED
      BY <2>2, <3>1
  <2> QED
    BY <2>1, <2>2
<1>5. StreamTypes'
  BY <1>1, <1>2, <1>3, <1>4 DEF StreamInv, StreamTypes
<1>6. StreamOrigins'
  <2>1. (source' = "api" => run' \in Runs /\ Created(run)') /\ (source' = "local" => run' = NoRun)
    BY <1>1, <1>2 DEF StreamInv, StreamOrigins, Created
  <2>2. \A l \in links' : Created(l.run)' /\ l.last <= Len(journal'[l.run])
    <3> SUFFICES ASSUME NEW l \in links PROVE Created(l.run)' /\ l.last <= Len(journal'[l.run])
      BY <1>2
    <3>1. /\ l.run \in Runs /\ l.last \in Nat /\ Created(l.run) /\ l.last <= Len(journal[l.run])
          /\ Len(journal[l.run]) \in Nat /\ Len(journal'[l.run]) \in Nat
      BY <1>1 DEF StreamInv, StreamTypes, StreamOrigins, StreamLinks
    <3>2. Created(l.run)'
      BY <1>1, <3>1 DEF Created
    <3> QED
      BY <1>1, <3>1, <3>2 DEF Growing
  <2>3. control' # Idle => Created(control.run)'
    <3>1. control' # Idle => control'.run \in Runs /\ Created(control.run)
      BY <1>4 DEF StreamInv, StreamTypes, StreamOrigins
    <3> QED
      BY <1>1, <1>4, <3>1 DEF Created
  <2>4. starting'.phase = "answered" =>
          /\ starting'.run \in Runs /\ Created(starting.run)' /\ run' # starting'.run
          /\ \A l \in links' : l.run # starting'.run
    <3>1. CASE starting' = starting
      BY <1>1, <1>2, <3>1 DEF StreamInv, StreamOrigins, Created
    <3>2. CASE starting' = [phase |-> "answered", run |-> r] /\ ~Created(r)
      <4>1. starting'.run = r /\ ~Created(r) /\ Created(r)'
        BY <1>1, <3>2
      <4>2. run # r
        BY <4>1, StreamAssumption DEF StreamInv, StreamTypes, StreamOrigins
      <4>3. \A l \in links : l.run # r
        BY <4>1 DEF StreamInv, StreamOrigins
      <4>4. Created(starting.run)'
        BY <4>1 DEF Created
      <4> QED
        BY <1>2, <4>1, <4>2, <4>3, <4>4
    <3> QED
      BY <3>1, <3>2
  <2> QED
    BY <2>1, <2>2, <2>3, <2>4 DEF StreamOrigins
<1>7. StreamFollows'
  BY <1>2 DEF StreamInv, StreamFollows, Current
<1>8. StreamShows'
  BY <1>5, JournalGrowsUnseen
<1> QED
  BY <1>5, <1>6, <1>7, <1>8 DEF StreamInv

\* What is planned is an event.
LEMMA PlannedIsAKind == \A i : Planned(i) \in {"node", "run.completed"} /\ Planned(i) \in Kinds
BY DEF Planned, Kinds, Terminal

LEMMA PlayStep == ASSUME StreamInv, NEW r \in Runs, Play(r) PROVE StreamInv'
<1>1. PICK type \in {"node", "run.completed"} : Append1(r, type)
  BY PlannedIsAKind DEF Play
<1>2. type \in Kinds /\ JournalStatus(r) = "running" /\ UNCHANGED <<storeVars, links, starting, control>>
  BY <1>1 DEF Play, Kinds, Terminal
<1>3. JournalStatus(r)' \in {"running", "completed"} /\ \A s \in Runs \ {r} : journal'[s] = journal[s]
  BY <1>1, <1>2, JournalGrows DEF StatusAfter
<1>4. StreamControls'
  BY <1>2, <1>3 DEF StreamInv, StreamTypes, StreamControls, JournalStatus, Idle
<1>5. UNCHANGED <<storeVars, links>> /\ starting' = starting /\ control' = control
  BY <1>2
<1> QED
  BY <1>1, <1>2, <1>4, <1>5, JournalStep

LEMMA InterruptStep == ASSUME StreamInv, NEW r \in Runs, Interrupt(r) PROVE StreamInv'
<1>1. /\ Append1(r, "run.interrupted") /\ "run.interrupted" \in Kinds
      /\ UNCHANGED <<storeVars, links, starting, control>>
  BY DEF Interrupt, Kinds, Terminal
<1>2. JournalStatus(r)' = "failed" /\ \A s \in Runs \ {r} : journal'[s] = journal[s]
  BY <1>1, JournalGrows DEF StatusAfter
<1>3. StreamControls'
  BY <1>1, <1>2 DEF StreamInv, StreamTypes, StreamControls, JournalStatus, Idle
<1>4. UNCHANGED <<storeVars, links>> /\ starting' = starting /\ control' = control
  BY <1>1
<1> QED
  BY <1>1, <1>3, <1>4, JournalStep

LEMMA CreateStep == ASSUME StreamInv, CreateRun PROVE StreamInv'
<1>1. PICK r \in Runs : r = (CHOOSE x \in Runs : ~Created(x)) /\ ~Created(r)
  BY DEF CreateRun
<1>2. /\ Append1(r, "node") /\ starting' = [phase |-> "answered", run |-> r]
      /\ UNCHANGED <<storeVars, links, control>>
  BY <1>1 DEF CreateRun
<1>3. "node" \in Kinds
  BY DEF Kinds
<1>4. \A s \in Runs \ {r} : journal'[s] = journal[s]
  BY <1>1, <1>2, <1>3, JournalGrows
<1>5. StreamControls'
  BY <1>1, <1>2, <1>4 DEF StreamInv, StreamTypes, StreamOrigins, StreamControls, JournalStatus, Idle
<1>6. UNCHANGED <<storeVars, links>> /\ control' = control
  BY <1>2
<1> QED
  BY <1>1, <1>2, <1>3, <1>5, <1>6, JournalStep

LEMMA ServeStep == ASSUME StreamInv, ServeControl PROVE StreamInv'
<1>1. control \in [phase : {"asked", "done", "refused"}, run : Runs, kind : ControlKinds] /\ control # Idle
  BY DEF StreamInv, StreamTypes, ServeControl, Idle
<1>0. PICK r \in Runs, kind \in ControlKinds : control.run = r /\ control.kind = kind
  BY <1>1
<1>2. CASE Accepted(kind, r)
  <2> DEFINE type == Recorded(kind, r)
  <2>1. Append1(r, type) /\ control' = [control EXCEPT !.phase = "done"] /\ UNCHANGED <<storeVars, links, starting>>
    BY <1>0, <1>2 DEF ServeControl
  <2>2. /\ type \in Kinds
        /\ (kind = "pause" => type = "run.paused") /\ (kind = "resume" => type = "run.resumed")
    BY <1>1, PlannedIsAKind DEF Recorded, ControlKinds, Kinds, Terminal
  <2>3. r \in Runs /\ control'.kind = kind /\ control'.run = r
    BY <1>0, <1>1, <2>1
  <2> HIDE DEF type
  <2>4. JournalStatus(r)' = IF type = "node" THEN JournalStatus(r) ELSE StatusAfter(type, "running")
    BY <2>1, <2>2, <2>3, JournalGrows
  <2>5. StreamControls'
    <3>1. kind = "pause" => JournalStatus(r)' = "paused"
      BY <2>2, <2>4 DEF StatusAfter
    <3>2. kind = "resume" => JournalStatus(r)' = "running"
      BY <2>2, <2>4 DEF StatusAfter
    <3> QED
      BY <2>3, <3>1, <3>2 DEF StreamControls, JournalStatus
  <2> QED
    BY <1>1, <2>1, <2>2, <2>3, <2>5, JournalStep
<1>3. CASE ~Accepted(kind, r)
  <2>1. control' = [control EXCEPT !.phase = "refused"] /\ UNCHANGED <<journal, storeVars, links, starting>>
    BY <1>0, <1>3 DEF ServeControl
  <2>2. RequestStep
    BY <1>1, <2>1 DEF RequestStep, StreamInv, StreamOrigins
  <2> QED
    BY <2>1, <2>2, RequestAlone
<1> QED
  BY <1>2, <1>3
LEMMA LinksStep ==
  ASSUME StreamInv, NEW l \in links, Ticket(l) \/ Open(l) \/ Break(l) \/ EndOfStream(l) \/ Reconnect(l)
  PROVE  StreamInv'
<1>1. l \in StreamLinks
  BY DEF StreamInv, StreamTypes
<1>2. UNCHANGED <<journal, storeVars, starting, control>>
  BY DEF Ticket, Open, Break, EndOfStream, Reconnect
<1> DEFINE Moved(T) == /\ T \subseteq StreamLinks /\ links' = (links \ {l}) \cup T
                       /\ \A m \in T : m.run = l.run /\ m.stopped = l.stopped /\ m.last = l.last
                       /\ \A m, n \in T : m = n
<1>3. ASSUME NEW T, Moved(T)
      PROVE  StreamInv'
  BY <1>2, <1>3, LinkStep
<1> HIDE DEF Moved
<1>0. ASSUME NEW p \in {"ticket", "opening", "open", "retry"}, NEW a \in Nat,
             links' = Replaced(l, [l EXCEPT !.phase = p, !.attempts = a])
      PROVE  StreamInv'
  <2>1. PICK m : m = [l EXCEPT !.phase = p, !.attempts = a]
    OBVIOUS
  <2>2. m \in StreamLinks /\ m.run = l.run /\ m.stopped = l.stopped /\ m.last = l.last
    <3>1. m.run = l.run /\ m.last = l.last
      BY <1>1, <2>1 DEF StreamLinks
    <3>2. m.stopped = l.stopped
      BY <1>1, <2>1 DEF StreamLinks
    <3>3. m \in StreamLinks
      BY <1>1, <2>1 DEF StreamLinks
    <3> QED
      BY <3>1, <3>2, <3>3
  <2>3. links' = (links \ {l}) \cup {m}
    BY <1>0, <2>1 DEF Replaced
  <2>4. Moved({m})
    BY <2>2, <2>3 DEF Moved
  <2> QED
    BY <1>3, <2>4
<1>4. CASE Ticket(l)
  <2>1. [l EXCEPT !.phase = "opening"] = [l EXCEPT !.phase = "opening", !.attempts = l.attempts] /\ l.attempts \in Nat
    BY <1>1 DEF StreamLinks
  <2> QED
    BY <1>0, <1>4, <2>1 DEF Ticket
<1>5. CASE Open(l)
  BY <1>0, <1>5 DEF Open
<1>6. CASE Reconnect(l)
  <2>1. [l EXCEPT !.phase = "ticket"] = [l EXCEPT !.phase = "ticket", !.attempts = l.attempts] /\ l.attempts \in Nat
    BY <1>1 DEF StreamLinks
  <2> QED
    BY <1>0, <1>6, <2>1 DEF Reconnect
<1>7. CASE Break(l) \/ EndOfStream(l)
  <2>1. links' = (links \ {l}) \cup Retry(l)
    BY <1>7 DEF Break, EndOfStream
  <2>2. CASE Retry(l) = {}
    <3>1. Moved({})
      BY <2>1, <2>2 DEF Moved
    <3> QED
      BY <1>3, <3>1
  <2>3. CASE Retry(l) # {}
    <3>1. Retry(l) = {[l EXCEPT !.phase = "retry", !.attempts = l.attempts + 1]} /\ l.attempts + 1 \in Nat
      BY <1>1, <2>3 DEF Retry, StreamLinks
    <3>2. links' = Replaced(l, [l EXCEPT !.phase = "retry", !.attempts = l.attempts + 1])
      BY <2>1, <3>1 DEF Replaced
    <3> QED
      BY <1>0, <3>1, <3>2
  <2> QED
    BY <2>2, <2>3
<1> QED
  BY <1>4, <1>5, <1>6, <1>7

\* A task of the browser changes the store, and the effect follows: what is shown is a run that
\* was shown, a run that was just created, or none.
LEMMA StoreStep ==
  ASSUME StreamInv, journal' = journal,
         NEW ls \in SUBSET StreamLinks, Effect(ls),
         \A l \in ls : l.last <= Len(journal[l.run]) /\ \E m \in links : l.run = m.run,
         \A l \in ls : l.stopped = FALSE => source = "api" /\ l.run = run /\ status \in Followed,
         \A l, m \in ls : l.stopped = FALSE /\ m.stopped = FALSE => l = m,
         visible' \subseteq StreamEvents, cursor' \in Nat, status' \in StreamStatuses,
         starting' \in {starting, Idle}, control' \in {control, Idle},
         \/ source' = "local" /\ run' = NoRun
         \/ source' = source /\ run' = run
         \/ source' = "api" /\ run' = starting.run /\ starting.phase = "answered" /\ starting' = Idle,
         StreamShows'
  PROVE  StreamInv'
<1>1. \A r \in Runs : Created(r)' = Created(r) /\ JournalStatus(r)' = JournalStatus(r) /\ Len(journal[r]) \in Nat
  BY DEF Created, JournalStatus, StreamInv, StreamTypes
<1>2. /\ source' \in {"api", "local"} /\ run' \in Runs \cup {NoRun}
      /\ (source' = "api" => run' \in Runs /\ Created(run')) /\ (source' = "local" => run' = NoRun)
  BY DEF StreamInv, StreamTypes, StreamOrigins
<1>3. /\ links' \subseteq StreamLinks /\ StreamFollows'
      /\ \A l \in links' : \/ \E m \in ls : l.run = m.run /\ l.last = m.last
                           \/ source' = "api" /\ l.run = run' /\ l.last = 0
  BY <1>2, LinksOfEffect
<1>4. StreamTypes'
  BY <1>2, <1>3 DEF StreamInv, StreamTypes, Idle
<1>5. \A l \in links' : Created(l.run) /\ l.last <= Len(journal[l.run])
  BY <1>1, <1>2, <1>3 DEF StreamInv, StreamOrigins
<1>6. starting'.phase = "answered" =>
        /\ starting' = starting /\ starting.run \in Runs /\ Created(starting.run) /\ run' # starting.run
        /\ \A l \in links' : l.run # starting.run
  <2> SUFFICES ASSUME starting'.phase = "answered"
               PROVE  /\ starting' = starting /\ starting.run \in Runs /\ Created(starting.run) /\ run' # starting.run
                      /\ \A l \in links' : l.run # starting.run
    OBVIOUS
  <2>1. starting' = starting /\ starting' # Idle
    BY DEF Idle
  <2>2. /\ starting.run \in Runs /\ Created(starting.run) /\ run # starting.run
        /\ \A l \in links : l.run # starting.run
    BY <2>1 DEF StreamInv, StreamOrigins
  <2>3. run' # starting.run
    BY <2>1, <2>2, StreamAssumption
  <2> QED
    BY <1>3, <2>1, <2>2, <2>3
<1>7. StreamOrigins'
  <2>1. control' # Idle => Created(control.run)'
    BY DEF StreamInv, StreamOrigins, Created
  <2> QED
    BY <1>2, <1>5, <1>6, <2>1 DEF StreamOrigins, Created
<1>8. StreamControls'
  BY DEF StreamInv, StreamControls, JournalStatus, Idle
<1> QED
  BY <1>3, <1>4, <1>7, <1>8 DEF StreamInv

\* The same when only the effect may change the links.
LEMMA StoreStepAlone ==
  ASSUME StreamInv, journal' = journal, Effect(links),
         visible' \subseteq StreamEvents, cursor' \in Nat, status' \in StreamStatuses,
         starting' \in {starting, Idle}, control' \in {control, Idle},
         \/ source' = "local" /\ run' = NoRun
         \/ source' = source /\ run' = run
         \/ source' = "api" /\ run' = starting.run /\ starting.phase = "answered" /\ starting' = Idle,
         StreamShows'
  PROVE  StreamInv'
<1>1. links \in SUBSET StreamLinks /\ \A l \in links : l.last <= Len(journal[l.run]) /\ \E m \in links : l.run = m.run
  BY DEF StreamInv, StreamTypes, StreamOrigins
<1>2. \A l \in links : l.stopped = FALSE => source = "api" /\ l.run = run /\ status \in Followed
  BY DEF StreamInv, StreamFollows, Current
<1>3. \A l, m \in links : l.stopped = FALSE /\ m.stopped = FALSE => l = m
  BY DEF StreamInv, StreamFollows, Current
<1> QED
  BY <1>1, <1>2, <1>3, StoreStep

\* Where no run of the API is shown there is nothing to keep.
LEMMA LocalShows == ASSUME source' = "local" PROVE StreamShows'
BY DEF StreamShows

LEMMA TickTypes ==
  ASSUME StreamTypes, applyNextEvent
  PROVE  visible' \subseteq StreamEvents /\ cursor' \in Nat /\ status' \in StreamStatuses
<1> DEFINE e == [run |-> NoRun, sequence |-> cursor + 1, type |-> Planned(cursor + 1)]
<1>1. CASE cursor > PlanLength
  BY <1>1 DEF applyNextEvent, StreamTypes
<1>2. CASE ~(cursor > PlanLength)
  <2>1. /\ visible' = Newest(visible \cup {e}) /\ status' = StatusAfter(e.type, status) /\ cursor' = cursor + 1
    BY <1>2 DEF applyNextEvent
  <2>2. e.type \in Kinds /\ e.type \in {"node", "run.completed"}
    BY PlannedIsAKind
  <2>3. e \in StreamEvents
    BY PlannedIsAKind DEF StreamEvents, StreamTypes
  <2>4. Newest(visible \cup {e}) \subseteq visible \cup {e}
    BY DEF Newest
  <2>5. status' \in StreamStatuses
    BY <2>1, <2>2 DEF StatusAfter, StreamStatuses, StreamTypes
  <2>6. visible \subseteq StreamEvents /\ cursor \in Nat
    BY DEF StreamTypes
  <2>7. cursor' \in Nat
    BY <2>1, <2>6
  <2> HIDE DEF e
  <2>8. visible' \subseteq StreamEvents
    BY <2>1, <2>3, <2>4, <2>6
  <2> QED
    BY <2>5, <2>7, <2>8
<1> QED
  BY <1>1, <1>2

\* What is shown stays shown when the store keeps the events and a status that was true.
LEMMA ShowsKept ==
  ASSUME StreamInv, journal' = journal, Effect(links),
         source' = source, run' = run, visible' = visible, node' = node,
         Alone /\ source = "api" /\ status = JournalStatus(run) => status' = status
  PROVE  StreamShows'
<1> SUFFICES ASSUME Alone', source = "api"
             PROVE  \E k \in 0..Len(journal[run]) : ShownUpTo(k)'
  BY DEF StreamShows
<1>1. Alone
  BY DEF Alone, Created
<1>2. PICK k \in 0..Len(journal[run]) : ShownUpTo(k)
  BY <1>1 DEF StreamInv, StreamShows
<1>3. /\ links \in SUBSET StreamLinks /\ run' \in Runs \cup {NoRun}
      /\ \A l \in links : l.stopped = FALSE => source = "api" /\ l.run = run /\ status \in Followed
  BY DEF StreamInv, StreamTypes, StreamFollows, Current
<1>4. \A l, m \in links : l.stopped = FALSE /\ m.stopped = FALSE => l = m
  BY DEF StreamInv, StreamFollows, Current
<1>5. \A l \in links' : l.last = 0 \/ \E m \in links : l.last = m.last
  BY <1>3, <1>4, LinksOfEffect
<1>6. \A l \in links' : l.last <= k
  BY <1>2, <1>5 DEF ShownUpTo
<1>7. visible' = {EventAt(n)' : n \in 1..k}
  BY <1>2 DEF ShownUpTo, EventAt
<1>8. \A n \in 1..k : journal'[run'][n] = "node" => node'.run = run' /\ node'.sequence >= n
  BY <1>2 DEF ShownUpTo
<1>9. status' = JournalStatus(run)' \/ \E n \in (k + 1)..Len(journal'[run']) : journal'[run'][n] # "node"
  BY <1>1, <1>2 DEF ShownUpTo, JournalStatus
<1> QED
  BY <1>6, <1>7, <1>8, <1>9 DEF ShownUpTo
\* What an answered or a local control does to what is shown.
LEMMA DoneStep ==
  ASSUME StreamInv, NEW kind \in ControlKinds, Done(kind), journal' = journal, Effect(links),
         starting' = starting, control' \in {control, Idle},
         Alone /\ source = "api" => /\ kind = "pause" => JournalStatus(run) # "running"
                                    /\ kind = "resume" => JournalStatus(run) # "paused"
  PROVE  StreamInv'
<1>1. StreamTypes
  BY DEF StreamInv
<1>2. visible \subseteq StreamEvents /\ cursor \in Nat /\ status \in StreamStatuses
  BY <1>1 DEF StreamTypes
<1>3. CASE kind = "pause"
  <2>1. status' = (IF status = "running" THEN "paused" ELSE status) /\ UNCHANGED <<source, run, visible, node, cursor>>
    BY <1>3 DEF Done, pauseSimulation
  <2>2. status' \in StreamStatuses
    BY <1>2, <2>1 DEF StreamStatuses
  <2>3. StreamShows'
    BY <1>3, <2>1, ShowsKept
  <2> QED
    BY <1>2, <2>1, <2>2, <2>3, StoreStepAlone
<1>4. CASE kind = "resume"
  <2>1. status' = (IF status = "paused" THEN "running" ELSE status) /\ UNCHANGED <<source, run, visible, node, cursor>>
    BY <1>4 DEF Done, resumeSimulation
  <2>2. status' \in StreamStatuses
    BY <1>2, <2>1 DEF StreamStatuses
  <2>3. StreamShows'
    BY <1>4, <2>1, ShowsKept
  <2> QED
    BY <1>2, <2>1, <2>2, <2>3, StoreStepAlone
<1>5. CASE kind = "step"
  <2>1. CASE Remote
    <3>1. UNCHANGED <<source, run, status, visible, node, cursor>>
      BY <1>5, <2>1 DEF Done, storeVars
    <3>2. StreamShows'
      BY <3>1, ShowsKept
    <3> QED
      BY <1>2, <3>1, <3>2, StoreStepAlone
  <2>2. CASE ~Remote
    <3>1. applyNextEvent /\ UNCHANGED <<source, run>>
      BY <1>5, <2>2 DEF Done
    <3>2. source = "local"
      BY <2>2, StreamAssumption DEF Remote, StreamInv, StreamTypes, StreamOrigins
    <3>3. visible' \subseteq StreamEvents /\ cursor' \in Nat /\ status' \in StreamStatuses
      BY <1>1, <3>1, TickTypes
    <3>4. StreamShows'
      BY <3>1, <3>2, LocalShows
    <3> QED
      BY <3>1, <3>3, <3>4, StoreStepAlone
  <2> QED
    BY <2>1, <2>2
<1>6. CASE kind = "cancel"
  <2>1. source' = "local" /\ run' = NoRun /\ status' = "idle" /\ visible' = {} /\ cursor' = 0
    BY <1>6 DEF Done, resetSimulation, Show
  <2>2. StreamShows'
    BY <2>1, LocalShows
  <2>3. visible' \subseteq StreamEvents /\ cursor' \in Nat /\ status' \in StreamStatuses
    BY <2>1 DEF StreamStatuses
  <2> QED
    BY <2>1, <2>2, <2>3, StoreStepAlone
<1> QED
  BY <1>3, <1>4, <1>5, <1>6 DEF ControlKinds

LEMMA ControlStep == ASSUME StreamInv, NEW kind \in ControlKinds, Control(kind) PROVE StreamInv'
<1>1. CASE Asks(kind)
  <2>1. /\ control' = [phase |-> "asked", run |-> run, kind |-> kind]
        /\ UNCHANGED <<storeVars, links>> /\ UNCHANGED journal /\ starting' = starting
    BY <1>1 DEF Control
  <2>2. run \in Runs /\ Created(run)
    BY <1>1 DEF Asks, Remote, StreamInv, StreamOrigins
  <2>3. RequestStep
    BY <2>1, <2>2 DEF RequestStep
  <2> QED
    BY <2>1, <2>3, RequestAlone
<1>2. CASE ~Asks(kind)
  <2>1. Done(kind) /\ Effect(links) /\ control' = control /\ journal' = journal /\ starting' = starting
    BY <1>2 DEF Control
  <2>2. source = "api" => kind = "cancel"
    BY <1>2, StreamAssumption DEF Asks, Remote, StreamInv, StreamOrigins
  <2> QED
    BY <2>1, <2>2, DoneStep
<1> QED
  BY <1>1, <1>2

LEMMA AnswerStep == ASSUME StreamInv, ControlAnswer PROVE StreamInv'
<1>1. /\ control.phase = "done" /\ control' = Idle /\ Done(control.kind) /\ Effect(links)
      /\ journal' = journal /\ starting' = starting
  BY DEF ControlAnswer
<1>2. PICK kind \in ControlKinds : control.kind = kind
  BY <1>1 DEF StreamInv, StreamTypes, Idle
<1>3. control.run \in Runs /\ Created(control.run)
  BY <1>1 DEF StreamInv, StreamTypes, StreamOrigins, Idle
<1>4. ASSUME Alone, source = "api"
      PROVE  (kind = "pause" => JournalStatus(run) # "running") /\ (kind = "resume" => JournalStatus(run) # "paused")
  <2>1. control.run = run
    BY <1>3, <1>4 DEF Alone, StreamInv, StreamOrigins
  <2> QED
    BY <1>1, <1>2, <2>1 DEF StreamInv, StreamControls
<1>5. Done(kind)
  BY <1>1, <1>2 DEF Done
<1> QED
  BY <1>1, <1>4, <1>5, DoneStep

LEMMA LocalSteps == ASSUME StreamInv, StartLocal \/ LocalTick \/ Reload PROVE StreamInv'
<1>1. CASE StartLocal \/ Reload
  <2>1. /\ source' = "local" /\ run' = NoRun /\ status' \in {"idle", "running"} /\ visible' = {} /\ cursor' = 0
        /\ Effect(links) /\ journal' = journal /\ starting' = starting /\ control' = control
    BY <1>1 DEF StartLocal, Reload, resetSimulation, Show
  <2>2. StreamShows'
    BY <2>1, LocalShows
  <2>3. visible' \subseteq StreamEvents /\ cursor' \in Nat /\ status' \in StreamStatuses
    BY <2>1 DEF StreamStatuses
  <2> QED
    BY <2>1, <2>2, <2>3, StoreStepAlone
<1>2. CASE LocalTick
  <2>1. /\ source = "local" /\ applyNextEvent /\ Effect(links)
        /\ UNCHANGED <<source, run>> /\ journal' = journal /\ starting' = starting /\ control' = control
    BY <1>2 DEF LocalTick
  <2>2. visible' \subseteq StreamEvents /\ cursor' \in Nat /\ status' \in StreamStatuses
    BY <2>1, TickTypes DEF StreamInv
  <2>3. StreamShows'
    BY <2>1, LocalShows
  <2> QED
    BY <2>1, <2>2, <2>3, StoreStepAlone
<1> QED
  BY <1>1, <1>2

\* The run that was created is shown from its first event, before any link follows it.
LEMMA StartStep == ASSUME StreamInv, StartAnswer PROVE StreamInv'
<1>1. /\ starting.phase = "answered" /\ source' = "api" /\ run' = starting.run /\ status' = "running"
      /\ visible' = {} /\ cursor' = 0 /\ starting' = Idle /\ Effect(links) /\ journal' = journal /\ control' = control
  BY DEF StartAnswer, Show
<1>2. PICK r \in Runs : r = starting.run /\ Created(r) /\ \A l \in links : l.run # r
  BY <1>1 DEF StreamInv, StreamOrigins
<1>3. journal[r] \in Seq(Kinds) /\ Len(journal[r]) \in Nat
  BY DEF StreamInv, StreamTypes
<1>4. StreamShows'
  <2> SUFFICES ASSUME Alone'
               PROVE  \E k \in 0..Len(journal'[run']) : ShownUpTo(k)'
    BY DEF StreamShows
  <2>1. links = {}
    BY <1>1, <1>2 DEF Alone, Created, StreamInv, StreamTypes, StreamOrigins, StreamLinks
  <2>2. \A l \in links' : l.last = 0
    <3>1. links \in SUBSET StreamLinks /\ run' \in Runs \cup {NoRun}
      BY <1>1, <1>2, <2>1
    <3>2. \A l \in links' : \/ \E m \in links : l.run = m.run /\ l.last = m.last
                            \/ source' = "api" /\ l.run = run' /\ l.last = 0
      BY <1>1, <2>1, <3>1, LinksOfEffect
    <3> QED
      BY <2>1, <3>2
  <2>3. JournalStatus(run)' = "running" \/ \E n \in 1..Len(journal[r]) : journal[r][n] # "node"
    <3>1. JournalStatus(run)' = StatusOf(journal[r])
      BY <1>1, <1>2 DEF JournalStatus
    <3>2. (\A n \in 1..Len(journal[r]) : journal[r][n] = "node") => Told(journal[r]) = {}
      BY <1>3 DEF Told
    <3> QED
      BY <3>1, <3>2 DEF StatusOf
  <2>4. ShownUpTo(0)'
    BY <1>1, <1>2, <2>2, <2>3 DEF ShownUpTo
  <2> QED
    BY <1>1, <1>2, <1>3, <2>4
<1>5. visible' \subseteq StreamEvents /\ cursor' \in Nat /\ status' \in StreamStatuses
  BY <1>1 DEF StreamStatuses
<1> QED
  BY <1>1, <1>4, <1>5, StoreStepAlone
\* An event arrives: it is the next one, or one of those that are shown.
LEMMA DeliverShows ==
  ASSUME StreamInv, NEW l \in links, Deliver(l), Alone, source = "api",
         NEW m, m \in StreamLinks, m.last = l.last + 1, Effect(Replaced(l, m)),
         \A x \in links' : x.last = 0 \/ \E y \in Replaced(l, m) : x.last = y.last
  PROVE  \E k \in 0..Len(journal[run]) : ShownUpTo(k)'
<1>1. run \in Runs /\ Created(run) /\ journal[run] \in Seq(Kinds) /\ Len(journal[run]) \in Nat
  BY DEF StreamInv, StreamTypes, StreamOrigins
<1>2. l.run = run /\ l.last \in Nat
  BY <1>1 DEF Alone, StreamInv, StreamTypes, StreamOrigins, StreamLinks
<1>3. PICK k \in 0..Len(journal[run]) : ShownUpTo(k)
  BY DEF StreamInv, StreamShows
<1> DEFINE n == l.last + 1
           e == EventAt(n)
<1>4. /\ UNCHANGED <<journal, source, run>> /\ ingestRemoteEvent(e) /\ n <= Len(journal[run]) /\ n <= k + 1
      /\ e.run = run /\ e.sequence = n /\ e.type = journal[run][n] /\ e.type \in Kinds
  <2>1. l.last < Len(journal[run]) /\ l.last <= k
    BY <1>2, <1>3 DEF Deliver, ShownUpTo
  <2> QED
    BY <1>1, <1>2, <1>3, <2>1 DEF Deliver, EventAt
<1>5. \A x \in links' : x.last <= k \/ x.last = n
  <2>1. \A y \in Replaced(l, m) : y.last <= k \/ y.last = n
    BY <1>3 DEF Replaced, ShownUpTo
  <2> QED
    BY <2>1
<1>6. /\ visible = {EventAt(i) : i \in 1..k}
      /\ \A i \in 1..k : journal[run][i] = "node" => node.run = run /\ node.sequence >= i
      /\ status = JournalStatus(run) \/ \E i \in (k + 1)..Len(journal[run]) : journal[run][i] # "node"
  BY <1>3 DEF ShownUpTo
<1>7. \A i : EventAt(i)' = EventAt(i) /\ EventAt(i).sequence = i
  BY <1>4 DEF EventAt
<1>8. JournalStatus(run)' = JournalStatus(run)
  BY <1>4 DEF JournalStatus
<1> HIDE DEF e
<1>9. CASE n <= k
  <2>1. \E f \in visible : f.sequence = e.sequence
    BY <1>2, <1>4, <1>6, <1>7, <1>9
  <2>2. visible' = visible /\ node' = node /\ status' = status
    BY <1>4, <2>1 DEF ingestRemoteEvent
  <2>3. visible' = {EventAt(i)' : i \in 1..k}
    BY <1>6, <1>7, <2>2
  <2>4. \A x \in links' : x.last <= k
    BY <1>5, <1>9
  <2>5. ShownUpTo(k)'
    BY <1>4, <1>6, <1>8, <2>2, <2>3, <2>4 DEF ShownUpTo
  <2> QED
    BY <2>5
<1>10. CASE ~(n <= k)
  <2>1. n = k + 1 /\ n \in 1..Len(journal[run]) /\ k \in Nat
    BY <1>1, <1>2, <1>4, <1>10
  <2>2. ~ \E f \in visible : f.sequence = e.sequence
    BY <1>4, <1>6, <1>7, <2>1
  <2>3. /\ visible' = Newest(visible \cup {e})
        /\ node' = (IF e.type = "node" THEN e ELSE node) /\ status' = StatusAfter(e.type, status)
    BY <1>4, <2>2 DEF ingestRemoteEvent
  <2>4. visible' = {EventAt(i) : i \in 1..n}
    <3> DEFINE S == {EventAt(i) : i \in 1..n}
               f == [i \in 1..n |-> EventAt(i)]
    <3>1. visible \cup {e} = S
      <4>1. 1..n = (1..k) \cup {n}
        BY <2>1
      <4> QED
        BY <1>6, <4>1 DEF e
    <3>2. n \in Nat /\ n <= Window
      BY <1>1, <2>1, StreamAssumption DEF Alone
    <3>3. S = {f[i] : i \in 1..n} /\ \A i \in 1..n : f[i].sequence = i
      BY <1>7
    <3> HIDE DEF S, f, n
    <3>4. Newest(S) = S
      BY <3>2, <3>3, NewestIsAll
    <3> QED
      BY <2>3, <3>1, <3>4 DEF S
  <2>5. visible' = {EventAt(i)' : i \in 1..n}
    BY <1>7, <2>4
  <2>6. \A x \in links' : x.last <= n
    <3>1. \A x \in links' : x.last \in Nat
      <4>1. \A y \in Replaced(l, m) : y.last \in Nat
        BY DEF Replaced, StreamInv, StreamTypes, StreamLinks
      <4> QED
        BY <4>1
    <3> QED
      BY <1>5, <2>1, <3>1
  <2>7. \A i \in 1..n : journal'[run'][i] = "node" => node'.run = run' /\ node'.sequence >= i
    <3>1. CASE e.type = "node"
      <4>1. node' = e
        BY <2>3, <3>1
      <4> QED
        BY <1>4, <2>1, <4>1
    <3>2. CASE e.type # "node"
      <4>1. node' = node /\ journal[run][n] # "node"
        BY <1>4, <2>3, <3>2
      <4>2. \A i \in 1..n : i = n \/ i \in 1..k
        BY <2>1
      <4> QED
        BY <1>4, <1>6, <4>1, <4>2
    <3> QED
      BY <3>1, <3>2
  <2>8. status' = JournalStatus(run)' \/ \E i \in (n + 1)..Len(journal'[run']) : journal'[run'][i] # "node"
    <3>1. CASE e.type = "node"
      <4>1. status' = status
        BY <2>3, <3>1 DEF StatusAfter
      <4>2. \A i \in (k + 1)..Len(journal[run]) : i = n \/ i \in (n + 1)..Len(journal[run])
        BY <1>1, <2>1
      <4> QED
        BY <1>4, <1>6, <1>8, <3>1, <4>1, <4>2
    <3>2. CASE e.type # "node"
      <4>1. status' = StatusAfter(e.type, "running")
        BY <1>4, <2>3, <3>2 DEF StatusAfter, Kinds, Terminal
      <4>2. n \in DOMAIN journal[run] /\ journal[run][n] # "node"
        BY <1>1, <1>4, <2>1, <3>2
      <4>3. CASE \A j \in (n + 1)..Len(journal[run]) : journal[run][j] = "node"
        <5> HIDE DEF n
        <5>1. StatusOf(journal[run]) = StatusAfter(journal[run][n], "running")
          BY <1>1, <4>2, <4>3, StatusOfLast
        <5> QED
          BY <1>4, <1>8, <4>1, <5>1 DEF JournalStatus
      <4> QED
        BY <1>4, <4>3
    <3> QED
      BY <3>1, <3>2
  <2>9. ShownUpTo(n)'
    BY <2>5, <2>6, <2>7, <2>8 DEF ShownUpTo
  <2> QED
    BY <1>1, <2>1, <2>9
<1> QED
  BY <1>9, <1>10

LEMMA DeliverStep == ASSUME StreamInv, NEW l \in links, Deliver(l) PROVE StreamInv'
<1>1. /\ l \in StreamLinks /\ l.run \in Runs /\ l.last \in Nat /\ l.stopped \in BOOLEAN /\ Created(l.run)
      /\ journal[l.run] \in Seq(Kinds) /\ Len(journal[l.run]) \in Nat
  BY DEF StreamInv, StreamTypes, StreamOrigins, StreamLinks
<1>2. PICK m : m = [l EXCEPT !.last = @ + 1]
  OBVIOUS
<1>3. m.last = l.last + 1 /\ m.run = l.run
  BY <1>1, <1>2 DEF StreamLinks
<1>4. m.stopped = l.stopped
  BY <1>1, <1>2 DEF StreamLinks
<1>5. m \in StreamLinks
  BY <1>1, <1>2 DEF StreamLinks
<1> DEFINE ls == Replaced(l, m)
           e  == [run |-> l.run, sequence |-> l.last + 1, type |-> journal[l.run][l.last + 1]]
<1>6. /\ l.last + 1 <= Len(journal[l.run]) /\ ingestRemoteEvent(e) /\ Effect(ls)
      /\ UNCHANGED <<source, run, cursor>> /\ journal' = journal /\ starting' = starting /\ control' = control
  BY <1>1, <1>2 DEF Deliver
<1>7. e \in StreamEvents /\ e.type \in Kinds
  BY <1>1, <1>6 DEF StreamEvents
<1>8. visible' \subseteq StreamEvents /\ status' \in StreamStatuses
  <2> HIDE DEF e, ls
  <2>0. visible \subseteq StreamEvents /\ status \in StreamStatuses
    BY DEF StreamInv, StreamTypes
  <2>1. CASE \E f \in visible : f.sequence = e.sequence
    BY <1>6, <2>0, <2>1 DEF ingestRemoteEvent
  <2>2. CASE ~ \E f \in visible : f.sequence = e.sequence
    <3>1. visible' = Newest(visible \cup {e}) /\ status' = StatusAfter(e.type, status)
      BY <1>6, <2>2 DEF ingestRemoteEvent
    <3>2. Newest(visible \cup {e}) \subseteq visible \cup {e}
      BY DEF Newest
    <3>3. status' \in StreamStatuses
      BY <1>7, <2>0, <3>1 DEF StatusAfter, StreamStatuses
    <3> QED
      BY <1>7, <2>0, <3>1, <3>2, <3>3
  <2> QED
    BY <2>1, <2>2
<1>9. /\ ls \subseteq StreamLinks
      /\ \A x \in ls : x.last <= Len(journal[x.run]) /\ \E y \in links : x.run = y.run
  <2>1. \A x \in links : x.last <= Len(journal[x.run])
    BY DEF StreamInv, StreamOrigins
  <2> QED
    BY <1>3, <1>5, <1>6, <2>1 DEF Replaced, StreamInv, StreamTypes
<1>10. \A x \in links : x.stopped = FALSE => source = "api" /\ x.run = run /\ status \in Followed
  BY DEF StreamInv, StreamFollows, Current
<1>11. \A x, y \in links : x.stopped = FALSE /\ y.stopped = FALSE => x = y
  BY DEF StreamInv, StreamFollows, Current
<1>12. \A x \in ls : x.stopped = FALSE => source = "api" /\ x.run = run /\ status \in Followed
  BY <1>3, <1>4, <1>10 DEF Replaced
<1>13. \A x, y \in ls : x.stopped = FALSE /\ y.stopped = FALSE => x = y
  BY <1>4, <1>11 DEF Replaced
<1>14. run' \in Runs \cup {NoRun}
  BY <1>6 DEF StreamInv, StreamTypes
<1>15. \A x \in links' : x.last = 0 \/ \E y \in ls : x.last = y.last
  <2> HIDE DEF ls, e
  <2> QED
    BY <1>6, <1>9, <1>12, <1>13, <1>14, LinksOfEffect
<1>16. StreamShows'
  <2> SUFFICES ASSUME Alone', source' = "api"
               PROVE  \E k \in 0..Len(journal[run]) : ShownUpTo(k)'
    BY <1>6 DEF StreamShows
  <2>1. Alone /\ source = "api"
    BY <1>6 DEF Alone, Created
  <2> QED
    BY <1>3, <1>5, <1>6, <1>15, <2>1, DeliverShows
<1> HIDE DEF ls, e
<1>17. cursor' \in Nat
  BY <1>6 DEF StreamInv, StreamTypes
<1> QED
  BY <1>6, <1>8, <1>9, <1>12, <1>13, <1>16, <1>17, StoreStep

LEMMA StreamStarts == StreamInit => StreamInv
<1> SUFFICES ASSUME StreamInit PROVE StreamInv
  OBVIOUS
<1>1. /\ journal = [r \in Runs |-> <<>>] /\ source = "local" /\ run = NoRun /\ status = "idle" /\ visible = {}
      /\ cursor = 0 /\ links = {} /\ starting = Idle /\ control = Idle
  BY DEF StreamInit
<1>2. StreamTypes
  BY <1>1 DEF StreamTypes, StreamStatuses, Idle
<1>3. StreamOrigins /\ StreamFollows /\ StreamControls /\ StreamShows
  BY <1>1 DEF StreamOrigins, StreamFollows, StreamControls, StreamShows, Current, Idle
<1> QED
  BY <1>2, <1>3 DEF StreamInv

LEMMA StreamStep == ASSUME StreamInv, [StreamNext]_streamVars PROVE StreamInv'
<1>1. CASE StartLocal \/ LocalTick \/ Reload
  BY <1>1, LocalSteps
<1>2. CASE \E kind \in ControlKinds : Control(kind)
  BY <1>2, ControlStep
<1>3. CASE CreateRun
  BY <1>3, CreateStep
<1>4. CASE \E r \in Runs : Play(r) \/ Interrupt(r)
  BY <1>4, PlayStep, InterruptStep
<1>5. CASE ServeControl
  BY <1>5, ServeStep
<1>6. CASE StartAnswer
  BY <1>6, StartStep
<1>7. CASE ControlAnswer
  BY <1>7, AnswerStep
<1>8. CASE StartAsk \/ StartLost \/ ControlRefused \/ ControlLost
  <2>1. UNCHANGED <<journal, storeVars, links>>
    BY <1>8 DEF StartAsk, StartLost, ControlRefused, ControlLost
  <2>2. RequestStep
    BY <1>8 DEF StartAsk, StartLost, ControlRefused, ControlLost, RequestStep, Idle
  <2> QED
    BY <2>1, <2>2, RequestAlone
<1>9. CASE \E l \in links : Ticket(l) \/ Open(l) \/ Break(l) \/ EndOfStream(l) \/ Reconnect(l)
  BY <1>9, LinksStep
<1>10. CASE \E l \in links : Deliver(l)
  BY <1>10, DeliverStep
<1>11. CASE UNCHANGED streamVars
  <2>1. UNCHANGED <<journal, storeVars, links>> /\ starting' = starting /\ control' = control
    BY <1>11 DEF streamVars
  <2>2. RequestStep
    BY <2>1 DEF RequestStep
  <2> QED
    BY <2>1, <2>2, RequestAlone
<1> QED
  BY <1>1, <1>2, <1>3, <1>4, <1>5, <1>6, <1>7, <1>8, <1>9, <1>10, <1>11 DEF StreamNext, ControlKinds

LEMMA StreamInvariant == StreamSpec => []StreamInv
<1>1. StreamInit => StreamInv
  BY StreamStarts
<1>2. StreamInv /\ [StreamNext]_streamVars => StreamInv'
  BY StreamStep
<1> QED
  BY <1>1, <1>2, PTL DEF StreamSpec

\* However often the effect is torn down and run again, and whatever requests and sockets are lost,
\* one link at most follows the run that is shown; and as long as no other run was created and the
\* log fits the window, all it delivered is shown and the nodes are as its latest event left them.
THEOREM RunIsFollowed == StreamSpec => []FollowingIsSound
<1>1. StreamInv => FollowingIsSound
  <2> SUFFICES ASSUME StreamInv PROVE FollowingIsSound
    OBVIOUS
  <2>1. \A l \in Current : source = "api" /\ l.run = run /\ status \in Followed
    BY DEF StreamInv, StreamFollows
  <2>2. Cardinality(Current) <= 1
    <3>1. CASE Current = {}
      BY <3>1, FS_EmptySet
    <3>2. CASE Current # {}
      <4>1. PICK l \in Current : TRUE
        BY <3>2
      <4>2. Current = {l}
        BY <4>1 DEF StreamInv, StreamFollows
      <4> QED
        BY <4>2, FS_Singleton
    <3> QED
      BY <3>1, <3>2
  <2>3. ASSUME Alone, source = "api"
        PROVE  /\ \A l \in Current : \A n \in 1..l.last : EventAt(n) \in visible
               /\ \A e \in visible : e.type = "node" => node.run = e.run /\ node.sequence >= e.sequence
    <3>1. PICK k \in 0..Len(journal[run]) : ShownUpTo(k)
      BY <2>3 DEF StreamInv, StreamShows
    <3>2. /\ visible = {EventAt(n) : n \in 1..k}
          /\ \A n \in 1..k : journal[run][n] = "node" => node.run = run /\ node.sequence >= n
          /\ \A l \in links : l.last <= k
      BY <3>1 DEF ShownUpTo
    <3>3. \A l \in Current : \A n \in 1..l.last : EventAt(n) \in visible
      <4>1. \A l \in Current : l \in links /\ l.last \in Nat
        BY DEF Current, StreamInv, StreamTypes, StreamLinks
      <4> QED
        BY <3>2, <4>1
    <3>4. ASSUME NEW e \in visible, e.type = "node"
          PROVE  node.run = e.run /\ node.sequence >= e.sequence
      <4>1. PICK n \in 1..k : e = EventAt(n)
        BY <3>2
      <4>2. e.run = run /\ e.sequence = n /\ e.type = journal[run][n]
        BY <4>1 DEF EventAt
      <4> QED
        BY <3>2, <3>4, <4>1, <4>2
    <3> QED
      BY <3>3, <3>4
  <2> QED
    BY <2>1, <2>2, <2>3 DEF FollowingIsSound, OneFollows, DeliveredIsShown
<1> QED
  BY <1>1, StreamInvariant, PTL

\* As long as no other run was created and the log fits the window, the status is that of the
\* journal once every event is shown and no control is under way: in whatever order the answers and
\* the events came, were lost or came twice.
THEOREM StatusesAreTrue == StreamSpec => []CaughtUpIsTrue
<1>1. StreamInv => CaughtUpIsTrue
  <2> SUFFICES ASSUME StreamInv, Alone, source = "api",
                      \A n \in 1..Len(journal[run]) : EventAt(n) \in visible
               PROVE  status = JournalStatus(run)
    BY DEF CaughtUpIsTrue
  <2>1. PICK k \in 0..Len(journal[run]) : ShownUpTo(k)
    BY DEF StreamInv, StreamShows
  <2>2. Len(journal[run]) \in Nat /\ Len(journal[run]) > 0
    BY DEF StreamInv, StreamTypes, StreamOrigins, Created
  <2>3. PICK n \in 1..k : EventAt(Len(journal[run])) = EventAt(n)
    BY <2>1, <2>2 DEF ShownUpTo
  <2>4. n = Len(journal[run])
    BY <2>3 DEF EventAt
  <2> QED
    BY <2>1, <2>2, <2>4 DEF ShownUpTo
<1> QED
  BY <1>1, StreamInvariant, PTL
===============================================================================
