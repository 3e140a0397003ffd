---------------------------- MODULE SimulatorProofs ----------------------------
(* Proofs about Simulator, for every flow, input and limit.                 *)
EXTENDS SimulatorInv, RunIncident, FiniteSetTheorems, SequenceTheorems, WellFoundedInduction, TLAPS

-------------------------------------------------------------------------------
(* Tokens and the joins they pass.                                          *)

\* The head of the queue is not later than any other token.
LEMMA FirstIsEarliest ==
  ASSUME TokenInv, NEW t, First(t), NEW u \in queue
  PROVE  t.time <= u.time
<1>1. CASE u = t
  BY <1>1 DEF TokenInv, IsToken
<1>2. CASE u # t
  BY <1>2 DEF First, Before, TokenInv, IsToken
<1> QED
  BY <1>1, <1>2

\* An arrival leaves the time of a barrier at that of the token that arrives.
LEMMA ArrivalTime ==
  ASSUME TokenInv, BarrierInv, NEW t, First(t)
  PROVE  Arrival(t).time = t.time
<1>1. t \in queue /\ t.time \in Nat
  BY DEF First, TokenInv, IsToken
<1>2. Barrier(t).time \in Nat /\ Barrier(t).time <= t.time
  BY <1>1 DEF Barrier, BarrierInv
<1> QED
  BY <1>1, <1>2 DEF Arrival

\* A token passes a join where and when it arrived, and no barrier is added or changed.
LEMMA ActivationFacts ==
  ASSUME TokenInv, BarrierInv, NEW t, First(t), NEW a \in Activations(t)
  PROVE  /\ a.token.id = t.id /\ a.token.node = t.node /\ a.token.time = t.time
         /\ DOMAIN a.barriers \subseteq DOMAIN barriers
         /\ \A k \in DOMAIN a.barriers : a.barriers[k] = barriers[k]
<1>1. CASE ~Waits(t)
  <2>1. a = Past(t, barriers, resolved)
    BY <1>1 DEF Activations, Waits, Completes, Gathers
  <2> QED
    BY <2>1 DEF Past
<1>2. CASE Waits(t) /\ Node(t.node).mode = "any" /\ ~Stray(t) /\ ~Late(t)
  <2>1. a = Past(Freed(t, t.context, t.writes, t.time), barriers, resolved \cup {Key(t)})
    BY <1>2 DEF Activations, Waits, Completes, Gathers
  <2> QED
    BY <2>1 DEF Past, Freed
<1>3. CASE Waits(t) /\ ~(Node(t.node).mode = "any" /\ ~Stray(t) /\ ~Late(t)) /\ Completes(t)
  <2>1. PICK m \in Merges(Arrival(t)) :
          a = Past(Freed(t, m.context, m.writes, Arrival(t).time), Others(Key(t)), resolved)
    BY <1>3 DEF Activations
  <2>2. Arrival(t).time = t.time
    BY ArrivalTime
  <2> QED
    BY <2>1, <2>2 DEF Past, Freed, Others
<1>4. CASE Waits(t) /\ ~(Node(t.node).mode = "any" /\ ~Stray(t) /\ ~Late(t)) /\ ~Completes(t)
  <2>1. Activations(t) = {}
    BY <1>4 DEF Activations
  <2> QED
    BY <2>1
<1> QED
  BY <1>1, <1>2, <1>3, <1>4

-------------------------------------------------------------------------------
(* The events of a step.                                                    *)

\* The types of the events that neither start a visit nor end the run.
Passing == Journal!PlannedTypes \ (Journal!TerminalTypes \cup {"node.started"})

\* How the types of the events divide.
LEMMA PassingTypes ==
  /\ {"node.queued", "node.waiting", "node.skipped", "node.completed", "node.failed",
      "edge.traversed"} \subseteq Passing
  /\ Passing \subseteq Journal!PlannedTypes /\ "node.started" \in Journal!PlannedTypes
  /\ {"run.completed", "run.failed", "run.limit_exceeded"} \subseteq
       Journal!PlannedTypes \cap Journal!TerminalTypes
  /\ "node.started" \notin Journal!TerminalTypes \cup Passing
  /\ Passing \cap Journal!TerminalTypes = {}
BY DEF Passing, Journal!PlannedTypes, Journal!TerminalTypes

\* An event of a token is a record of the log.
LEMMA EventType ==
  ASSUME NEW type \in Journal!PlannedTypes, NEW time \in Nat, NEW token, token.node \in Nodes,
         token.id \in Nat, NEW code \in Codes
  PROVE  /\ Event(type, time, token, code) \in EventRecord
         /\ Event(type, time, token, code).type = type
         /\ Event(type, time, token, code).time = time
         /\ Event(type, time, token, code).node = token.node
BY DEF Event, EventRecord

\* What the Executable scenario of the call gives: durations, and edges between nodes.
LEMMA ScenarioFacts ==
  ASSUME CallInv
  PROVE  /\ \A n \in Nodes : Node(n).duration \in Nat
         /\ \A e \in DOMAIN scenario.edges : Edge(e).target \in Nodes
         /\ IsFiniteSet(DOMAIN scenario.edges)
         /\ scenario.trigger \in Nodes /\ scenario.maxSteps \in Nat /\ scenario.maxVisits \in Nat
BY ScenarioAssumption DEF CallInv, Executable, Nodes, Node, Edge

\* The edges selected leave the node of the token.
LEMMA ChoiceEdges ==
  ASSUME NEW t
  PROVE  Choice(t).edges \subseteq DOMAIN scenario.edges
<1>1. Outgoing(t.node) \subseteq DOMAIN scenario.edges
  BY DEF Outgoing
<1>2. \A edges, context : Chosen(edges, context).edges = edges
  BY DEF Chosen
<1>3. \A edges, context : Telling(edges, context) \subseteq edges
  BY DEF Telling
<1>4. ASSUME NEW n, Outgoing(n) \subseteq DOMAIN scenario.edges, NEW context
      PROVE  Decide(n, context).edges \subseteq DOMAIN scenario.edges
  <2> DEFINE asked == {e \in Outgoing(n) : ~Edge(e).default /\ Edge(e).condition # NoCondition}
             telling == Telling(asked, context)
  <2>1. telling \subseteq Outgoing(n)
    BY <1>3
  <2>2. CASE telling = {}
    BY <2>2, <1>4 DEF Decide
  <2>3. CASE telling # {} /\ Node(n).strategy = "all_matches"
    <3>1. Decide(n, context) = Chosen(telling, context)
      BY <2>3 DEF Decide
    <3> QED
      BY <3>1, <2>1, <1>2, <1>4
  <2>4. CASE telling # {} /\ Node(n).strategy # "all_matches"
    <3> DEFINE leading == {e \in telling : \A d \in telling \ {e} : Earlier(e, d)}
    <3>1. Decide(n, context) = Chosen(leading, context)
      BY <2>4 DEF Decide
    <3>2. leading \subseteq DOMAIN scenario.edges
      BY <2>1, <1>4
    <3> HIDE DEF leading
    <3> QED
      BY <3>1, <3>2, <1>2
  <2> QED
    BY <2>2, <2>3, <2>4
<1>5. CASE t.node \in DOMAIN scenario.forced
  BY <1>5, <1>1 DEF Choice, SelectEdges
<1>6. CASE t.node \notin DOMAIN scenario.forced /\ Node(t.node).type = "decision"
  BY <1>6, <1>1, <1>4 DEF Choice, SelectEdges
<1>7. CASE t.node \notin DOMAIN scenario.forced /\ Node(t.node).type # "decision"
  BY <1>7, <1>1, <1>2, <1>3 DEF Choice, SelectEdges
<1> QED
  BY <1>5, <1>6, <1>7

\* A finite set listed in some order is a sequence of its elements.
LEMMA ListedInOrder ==
  ASSUME NEW S, IsFiniteSet(S), NEW s \in SetToSeqs(S)
  PROVE  s \in Seq(S)
<1>1. Cardinality(S) \in Nat
  BY FS_CardinalityType
<1>2. s \in [1..Cardinality(S) -> S]
  BY DEF SetToSeqs
<1> QED
  BY <1>1, <1>2, SeqDef

-------------------------------------------------------------------------------
(* The three kinds of steps.                                                *)

\* A token stops at a join: one event, which starts no visit and ends nothing.
StopStep ==
  \E e \in EventRecord :
    /\ e.type \in Passing /\ events' = events \o <<e>> /\ queue' \subseteq queue
    /\ status = "running" /\ runCode' \in Codes /\ UNCHANGED <<scenario, status, steps, visits, tokens>>

\* A visit: its start comes first, and whatever it queues is not earlier than the visit.
VisitStep ==
  \E t \in queue : \E new \in Seq(EventRecord) :
    /\ First(t) /\ WithinLimits(t.node) /\ events' = events \o new /\ Len(new) > 0
    /\ new[1].type = "node.started" /\ new[1].time = t.time /\ new[1].node = t.node
    /\ \A i \in 2..Len(new) : new[i].type \in Passing
    /\ steps' = steps + 1 /\ visits' = [visits EXCEPT ![t.node] = @ + 1] /\ tokens' \in Nat
    /\ \A u \in queue' : u \in queue \/ (IsToken(u) /\ t.time <= u.time)
    /\ status = "running" /\ runCode' \in Codes /\ UNCHANGED <<scenario, status>>

\* The end: the verdict is the last event, the queue is empty and the call returns.
LastStep ==
  \E new \in Seq(EventRecord) :
    /\ events' = events \o new /\ Len(new) > 0 /\ new[Len(new)].type \in Journal!TerminalTypes
    /\ \A i \in 1..Len(new) - 1 : new[i].type \in Passing
    /\ status = "running" /\ status' \in {"completed", "failed"} /\ queue' = {} /\ runCode' \in Codes
    /\ UNCHANGED <<scenario, steps, visits, tokens>>

\* One event and no visit make a stop.
LEMMA StopWith ==
  ASSUME NEW t, Take(t), NEW e \in EventRecord, e.type \in Passing, Emit(<<e>>), runCode' \in Codes
  PROVE  StopStep
<1>1. /\ status = "running" /\ queue' \subseteq queue
      /\ UNCHANGED <<scenario, status, steps, visits, tokens>>
  BY DEF Take, playVars
<1>2. events' = events \o <<e>>
  BY DEF Emit
<1> QED
  BY <1>1, <1>2 DEF StopStep

\* The five actions that start no visit are stops.
LEMMA StopIsStop ==
  ASSUME CallInv, TokenInv, BarrierInv,
         Uncorrelated \/ AnyAlreadyResolved \/ DuplicateBranch \/ AwaitSiblings \/ MergeConflict
  PROVE  StopStep
<1>1. ASSUME NEW t, Take(t)
      PROVE  t.node \in Nodes /\ t.id \in Nat /\ t.time \in Nat /\ Arrival(t).time \in Nat
  BY <1>1, ArrivalTime DEF Take, First, TokenInv, IsToken
<1>2. CASE Uncorrelated
  <2>1. PICK t : Take(t) /\ MarkFailure("join.uncorrelated")
                 /\ Emit(<<Event("node.failed", t.time, t, "join.uncorrelated")>>)
    BY <1>2 DEF Uncorrelated
  <2>2. runCode' \in Codes
    BY <2>1 DEF MarkFailure, CallInv, Codes
  <2>3. Event("node.failed", t.time, t, "join.uncorrelated") \in EventRecord /\ Event("node.failed", t.time, t, "join.uncorrelated").type \in Passing
    BY <2>1, <1>1, PassingTypes DEF Codes, Event, EventRecord
  <2> QED
    BY <2>1, <2>2, <2>3, StopWith
<1>3. CASE AnyAlreadyResolved
  <2>1. PICK t : Take(t) /\ runCode' = runCode
                 /\ Emit(<<Event("node.skipped", t.time, t, "join.any_already_resolved")>>)
    BY <1>3 DEF AnyAlreadyResolved
  <2>2. runCode' \in Codes
    BY <2>1 DEF CallInv
  <2>3. Event("node.skipped", t.time, t, "join.any_already_resolved") \in EventRecord /\ Event("node.skipped", t.time, t, "join.any_already_resolved").type \in Passing
    BY <2>1, <1>1, PassingTypes DEF Codes, Event, EventRecord
  <2> QED
    BY <2>1, <2>2, <2>3, StopWith
<1>4. CASE DuplicateBranch
  <2>1. PICK t : Take(t) /\ runCode' = runCode
                 /\ Emit(<<Event("node.skipped", t.time, t, "join.all_duplicate_branch")>>)
    BY <1>4 DEF DuplicateBranch
  <2>2. runCode' \in Codes
    BY <2>1 DEF CallInv
  <2>3. Event("node.skipped", t.time, t, "join.all_duplicate_branch") \in EventRecord /\ Event("node.skipped", t.time, t, "join.all_duplicate_branch").type \in Passing
    BY <2>1, <1>1, PassingTypes DEF Codes, Event, EventRecord
  <2> QED
    BY <2>1, <2>2, <2>3, StopWith
<1>5. CASE AwaitSiblings
  <2>1. PICK t : Take(t) /\ runCode' = runCode /\ Emit(<<Event("node.waiting", t.time, t, "")>>)
    BY <1>5 DEF AwaitSiblings
  <2>2. runCode' \in Codes
    BY <2>1 DEF CallInv
  <2>3. Event("node.waiting", t.time, t, "") \in EventRecord /\ Event("node.waiting", t.time, t, "").type \in Passing
    BY <2>1, <1>1, PassingTypes DEF Codes, Event, EventRecord
  <2> QED
    BY <2>1, <2>2, <2>3, StopWith
<1>6. CASE MergeConflict
  <2>1. PICK t : /\ Take(t) /\ MarkFailure("context.merge_conflict")
                 /\ Emit(<<Event("node.failed", Arrival(t).time, t, "context.merge_conflict")>>)
    BY <1>6 DEF MergeConflict
  <2>2. runCode' \in Codes
    BY <2>1 DEF MarkFailure, CallInv, Codes
  <2>3. Event("node.failed", Arrival(t).time, t, "context.merge_conflict") \in EventRecord /\ Event("node.failed", Arrival(t).time, t, "context.merge_conflict").type \in Passing
    BY <2>1, <1>1, PassingTypes DEF Codes, Event, EventRecord
  <2> QED
    BY <2>1, <2>2, <2>3, StopWith
<1> QED
  BY <1>2, <1>3, <1>4, <1>5, <1>6

\* The frame of the actions that visit a node.
LEMMA VisitFrame ==
  ASSUME CallInv, TokenInv, BarrierInv, NEW t, NEW a, Visit(t, a)
  PROVE  /\ First(t) /\ t \in queue /\ WithinLimits(t.node) /\ status = "running"
         /\ a.token.id = t.id /\ a.token.node = t.node /\ a.token.time = t.time
         /\ t.id \in Nat /\ t.node \in Nodes /\ t.time \in Nat
         /\ steps' = steps + 1 /\ visits' = [visits EXCEPT ![t.node] = @ + 1]
         /\ UNCHANGED <<scenario, status>>
<1>1. First(t) /\ a \in Activations(t) /\ status = "running" /\ UNCHANGED scenario
  BY DEF Visit, Pass
<1>2. a.token.id = t.id /\ a.token.node = t.node /\ a.token.time = t.time
  BY <1>1, ActivationFacts
<1>3. t \in queue /\ t.id \in Nat /\ t.node \in Nodes /\ t.time \in Nat
  BY <1>1 DEF First, TokenInv, IsToken
<1> QED
  BY <1>1, <1>2, <1>3 DEF Visit

\* A visit is a visit step if its events are, and what it queues is not earlier.
LEMMA VisitWith ==
  ASSUME CallInv, TokenInv, BarrierInv, NEW t, NEW a, Visit(t, a),
         NEW new \in Seq(EventRecord), Emit(new), Len(new) > 0, new[1] = Started(a.token),
         \A i \in 2..Len(new) : new[i].type \in Passing,
         \A u \in queue' : u \in queue \/ (IsToken(u) /\ t.time <= u.time),
         runCode' \in Codes, tokens' \in Nat
  PROVE  VisitStep
<1>0. /\ Started(a.token).type = "node.started" /\ Started(a.token).time = a.token.time
      /\ Started(a.token).node = a.token.node
  BY DEF Started, Event
<1>1. new[1].type = "node.started" /\ new[1].time = t.time /\ new[1].node = t.node
  BY <1>0, VisitFrame
<1>2. events' = events \o new
  BY DEF Emit
<1>3. t \in queue /\ First(t) /\ WithinLimits(t.node) /\ status = "running"
      /\ steps' = steps + 1 /\ visits' = [visits EXCEPT ![t.node] = @ + 1]
      /\ UNCHANGED <<scenario, status>>
  BY VisitFrame
<1> QED
  BY <1>1, <1>2, <1>3 DEF VisitStep

\* The events of a visit are typed, and only its start is not Passing.
LEMMA VisitEvents ==
  ASSUME CallInv, TokenInv, BarrierInv, NEW t, NEW a, Visit(t, a)
  PROVE  /\ Started(a.token) \in EventRecord
         /\ Completed(a.token) \in EventRecord /\ Completed(a.token).type \in Passing
         /\ Completed(a.token).time \in Nat /\ t.time <= Completed(a.token).time
         /\ \A code \in Codes, time \in Nat :
              /\ Event("node.failed", time, a.token, code) \in EventRecord
              /\ Event("node.failed", time, a.token, code).type \in Passing
<1>1. /\ a.token.id = t.id /\ a.token.node = t.node /\ a.token.time = t.time
      /\ t.id \in Nat /\ t.node \in Nodes /\ t.time \in Nat
  BY VisitFrame
<1>2. Node(a.token.node).duration \in Nat
  BY <1>1, ScenarioFacts
<1> DEFINE later == a.token.time + Node(a.token.node).duration
<1>3. later \in Nat /\ t.time <= later
  BY <1>1, <1>2
<1> HIDE DEF later
<1>4. Completed(a.token) = Event("node.completed", later, a.token, "")
  BY DEF Completed, later
<1>5. Completed(a.token) \in EventRecord /\ Completed(a.token).type \in Passing
      /\ Completed(a.token).time = later
  <2>1. "node.completed" \in Passing /\ "node.completed" \in Journal!PlannedTypes /\ "" \in Codes
    BY PassingTypes DEF Codes
  <2> DEFINE e == Event("node.completed", later, a.token, "")
  <2>2. e \in EventRecord /\ e.type = "node.completed" /\ e.time = later
    BY <1>1, <1>3, <2>1 DEF Event, EventRecord
  <2> HIDE DEF e
  <2>3. Completed(a.token) = e
    BY <1>4 DEF e
  <2> QED
    BY <2>1, <2>2, <2>3
<1>6. Started(a.token) \in EventRecord
  BY <1>1, PassingTypes DEF Started, Codes, Event, EventRecord
<1>7. \A code \in Codes, time \in Nat :
        /\ Event("node.failed", time, a.token, code) \in EventRecord
        /\ Event("node.failed", time, a.token, code).type \in Passing
  BY <1>1, PassingTypes DEF Event, EventRecord
<1> QED
  BY <1>3, <1>5, <1>6, <1>7

\* A visit that fails is a visit.
LEMMA FailVisitIsVisit ==
  ASSUME CallInv, TokenInv, BarrierInv, FailVisit
  PROVE  VisitStep
<1>1. PICK t, a : /\ Visit(t, a) /\ MarkFailure(Failure(a.token)) /\ queue' = queue \ {t}
                  /\ Emit(<<Started(a.token),
                            Event("node.failed", a.token.time, a.token, Failure(a.token))>>)
                  /\ tokens' = tokens
  BY DEF FailVisit
<1>2. Failure(a.token) \in Codes
  BY DEF Failure, Codes
<1>3. runCode' \in Codes /\ tokens' \in Nat
  BY <1>1, <1>2 DEF MarkFailure, CallInv, TokenInv
<1> DEFINE failed == Event("node.failed", a.token.time, a.token, Failure(a.token))
           new == <<Started(a.token), failed>>
<1>4. Started(a.token) \in EventRecord /\ failed \in EventRecord /\ failed.type \in Passing
  BY <1>1, <1>2, VisitFrame, VisitEvents
<1> HIDE DEF failed
<1>5. /\ new \in Seq(EventRecord) /\ Len(new) > 0 /\ new[1] = Started(a.token)
      /\ \A i \in 2..Len(new) : new[i].type \in Passing
  BY <1>4
<1>6. Emit(new) /\ \A u \in queue' : u \in queue \/ (IsToken(u) /\ t.time <= u.time)
  BY <1>1 DEF failed
<1> HIDE DEF new
<1> QED
  BY <1>1, <1>3, <1>5, <1>6, VisitWith

\* A visit of an end is a visit.
LEMMA ReachEndIsVisit ==
  ASSUME CallInv, TokenInv, BarrierInv, ReachEnd
  PROVE  VisitStep
<1>1. PICK t, a : /\ Visit(t, a) /\ queue' = queue \ {t}
                  /\ MarkFailure("end.failure") \/ UNCHANGED runCode
                  /\ Emit(<<Started(a.token), Completed(a.token)>>)
                  /\ tokens' = tokens
  BY DEF ReachEnd
<1>2. runCode' \in Codes /\ tokens' \in Nat
  BY <1>1 DEF MarkFailure, CallInv, TokenInv, Codes
<1> DEFINE new == <<Started(a.token), Completed(a.token)>>
<1>3. /\ new \in Seq(EventRecord) /\ Len(new) > 0 /\ new[1] = Started(a.token)
      /\ \A i \in 2..Len(new) : new[i].type \in Passing
  BY <1>1, VisitEvents
<1>4. Emit(new) /\ \A u \in queue' : u \in queue \/ (IsToken(u) /\ t.time <= u.time)
  BY <1>1
<1> HIDE DEF new
<1> QED
  BY <1>1, <1>2, <1>3, <1>4, VisitWith

\* A visit that chooses no edge is a visit.
LEMMA InvalidChoiceIsVisit ==
  ASSUME CallInv, TokenInv, BarrierInv, InvalidChoice
  PROVE  VisitStep
<1>1. PICK t, a : /\ Visit(t, a) /\ MarkFailure("condition.invalid") /\ queue' = queue \ {t}
                  /\ Emit(<<Started(a.token), Completed(a.token),
                            Event("node.failed", Completed(a.token).time, a.token,
                                  "condition.invalid")>>)
                  /\ tokens' = tokens
  BY DEF InvalidChoice
<1>2. runCode' \in Codes /\ tokens' \in Nat
  BY <1>1 DEF MarkFailure, CallInv, TokenInv, Codes
<1> DEFINE failed == Event("node.failed", Completed(a.token).time, a.token, "condition.invalid")
           new == <<Started(a.token), Completed(a.token), failed>>
<1>3. failed \in EventRecord /\ failed.type \in Passing
  BY <1>1, VisitEvents DEF Codes
<1> HIDE DEF failed
<1>4. /\ new \in Seq(EventRecord) /\ Len(new) > 0 /\ new[1] = Started(a.token)
      /\ \A i \in 2..Len(new) : new[i].type \in Passing
  BY <1>1, <1>3, VisitEvents
<1>5. Emit(new) /\ \A u \in queue' : u \in queue \/ (IsToken(u) /\ t.time <= u.time)
  BY <1>1 DEF failed
<1> HIDE DEF new
<1> QED
  BY <1>1, <1>2, <1>4, <1>5, VisitWith

\* The children of a visit are queued at the time it completes.
LEMMA ChildrenOfVisit ==
  ASSUME CallInv, TokenInv, BarrierInv, NEW t, NEW a, Visit(t, a),
         NEW order \in InOrder(Choice(a.token).edges)
  PROVE  /\ Len(order) \in Nat
         /\ \A i \in 1..Len(order) : /\ IsToken(Child(a.token, order, i))
                                     /\ t.time <= Child(a.token, order, i).time
<1>1. Choice(a.token).edges \subseteq DOMAIN scenario.edges
  BY ChoiceEdges
<1>2. IsFiniteSet(Choice(a.token).edges)
  BY <1>1, ScenarioFacts, FS_Subset
<1>3. order \in Seq(Choice(a.token).edges)
  BY <1>2, ListedInOrder DEF InOrder
<1>4. ASSUME NEW i \in 1..Len(order)
      PROVE  IsToken(Child(a.token, order, i)) /\ t.time <= Child(a.token, order, i).time
  <2>1. order[i] \in DOMAIN scenario.edges
    BY <1>1, <1>3
  <2>2. Edge(order[i]).target \in Nodes
    BY <2>1, ScenarioFacts
  <2>3. tokens + i \in Nat
    BY <1>3 DEF TokenInv
  <2>4. Completed(a.token).time \in Nat /\ t.time <= Completed(a.token).time
    BY VisitEvents
  <2>5. /\ Child(a.token, order, i).id = tokens + i
        /\ Child(a.token, order, i).node = Edge(order[i]).target
        /\ Child(a.token, order, i).time = Completed(a.token).time
    BY DEF Child
  <2> QED
    BY <2>2, <2>3, <2>4, <2>5 DEF IsToken
<1> QED
  BY <1>3, <1>4

\* An edge and the child it leads to, for each edge in turn.
LEMMA CrossingEvents ==
  ASSUME CallInv, TokenInv, BarrierInv, NEW t, NEW a, Visit(t, a),
         NEW order \in InOrder(Choice(a.token).edges)
  PROVE  /\ Crossings(a.token, order) \in Seq(EventRecord)
         /\ Len(Crossings(a.token, order)) = 2 * Len(order)
         /\ \A i \in 1..2 * Len(order) : Crossings(a.token, order)[i].type \in Passing
<1> DEFINE n == 2 * Len(order)
           time == Completed(a.token).time
           entry(i) == IF i % 2 = 1 THEN Event("edge.traversed", time, a.token, "")
                       ELSE Event("node.queued", time, Child(a.token, order, i \div 2), "")
<1>1. Len(order) \in Nat /\ n \in Nat
  BY ChildrenOfVisit
<1>2. time \in Nat /\ a.token.node \in Nodes /\ a.token.id \in Nat
  BY VisitEvents, VisitFrame
<1>3. /\ {"edge.traversed", "node.queued"} \subseteq Passing \cap Journal!PlannedTypes
      /\ "" \in Codes
  BY PassingTypes DEF Codes
<1>4. ASSUME NEW i \in 1..n
      PROVE  entry(i) \in EventRecord /\ entry(i).type \in Passing
  <2>1. CASE i % 2 = 1
    BY <2>1, <1>2, <1>3 DEF Event, EventRecord
  <2>2. CASE i % 2 # 1
    <3>1. i \div 2 \in 1..Len(order)
      BY <2>2, <1>1
    <3> DEFINE child == Child(a.token, order, i \div 2)
    <3>2. child.node \in Nodes /\ child.id \in Nat
      BY <3>1, ChildrenOfVisit DEF IsToken
    <3> HIDE DEF child
    <3>3. /\ Event("node.queued", time, child, "") \in EventRecord
          /\ Event("node.queued", time, child, "").type \in Passing
      BY <3>2, <1>2, <1>3 DEF Event, EventRecord
    <3> QED
      BY <3>3, <2>2 DEF child
  <2> QED
    BY <2>1, <2>2
<1>5. Crossings(a.token, order) = [i \in 1..n |-> entry(i)]
  BY DEF Crossings
<1> HIDE DEF entry, n
<1> QED
  BY <1>1, <1>4, <1>5 DEF n

\* A visit that traverses edges is a visit: its children come later.
LEMMA TraverseIsVisit ==
  ASSUME CallInv, TokenInv, BarrierInv, Traverse
  PROVE  VisitStep
<1>1. PICK t, a : \E order \in InOrder(Choice(a.token).edges) :
        /\ Visit(t, a) /\ UNCHANGED runCode /\ tokens' = tokens + Len(order)
        /\ queue' = (queue \ {t}) \cup {Child(a.token, order, i) : i \in 1..Len(order)}
        /\ Emit(<<Started(a.token), Completed(a.token)>> \o Crossings(a.token, order))
  BY DEF Traverse
<1>2. PICK order \in InOrder(Choice(a.token).edges) :
        /\ Visit(t, a) /\ UNCHANGED runCode /\ tokens' = tokens + Len(order)
        /\ queue' = (queue \ {t}) \cup {Child(a.token, order, i) : i \in 1..Len(order)}
        /\ Emit(<<Started(a.token), Completed(a.token)>> \o Crossings(a.token, order))
  BY <1>1
<1> DEFINE crossed == Crossings(a.token, order)
           visited == <<Started(a.token), Completed(a.token)>>
           new == visited \o crossed
<1>3. Len(order) \in Nat /\ \A u \in queue' : u \in queue \/ (IsToken(u) /\ t.time <= u.time)
  BY <1>2, ChildrenOfVisit
<1>4. crossed \in Seq(EventRecord) /\ \A i \in 1..Len(crossed) : crossed[i].type \in Passing
  BY <1>2, CrossingEvents
<1>5. /\ visited \in Seq(EventRecord) /\ Len(visited) = 2 /\ visited[1] = Started(a.token)
      /\ visited[2].type \in Passing
  BY <1>2, VisitEvents
<1>6. Emit(new) /\ runCode' \in Codes /\ tokens' \in Nat
  BY <1>2, <1>3 DEF CallInv, TokenInv
<1> HIDE DEF crossed, visited
<1>7. /\ new \in Seq(EventRecord) /\ Len(new) > 0 /\ new[1] = Started(a.token)
      /\ \A i \in 2..Len(new) : new[i].type \in Passing
  <2>0. /\ new \in Seq(EventRecord) /\ Len(new) = Len(visited) + Len(crossed)
        /\ \A i \in 1..Len(visited) + Len(crossed) :
             new[i] = IF i <= Len(visited) THEN visited[i] ELSE crossed[i - Len(visited)]
    BY <1>4, <1>5, ConcatProperties, Zenon
  <2>1. /\ new \in Seq(EventRecord) /\ Len(new) = 2 + Len(crossed)
        /\ \A i \in 1..Len(new) : new[i] = IF i <= 2 THEN visited[i] ELSE crossed[i - 2]
    <3> HIDE DEF new
    <3> QED
      BY <2>0, <1>5
  <2>2. ASSUME NEW i \in 2..Len(new)
        PROVE  new[i].type \in Passing
    <3>1. CASE i = 2
      BY <3>1, <2>1, <1>5
    <3>2. CASE i # 2
      <4>1. i - 2 \in 1..Len(crossed) /\ new[i] = crossed[i - 2]
        BY <3>2, <2>1, <1>4
      <4> QED
        BY <4>1, <1>4
    <3> QED
      BY <3>1, <3>2
  <2> QED
    BY <2>1, <2>2, <1>4, <1>5
<1> HIDE DEF new
<1> QED
  BY <1>2, <1>3, <1>6, <1>7, VisitWith

\* A limit is the end.
LEMMA ExceedLimitIsLast ==
  ASSUME CallInv, TokenInv, BarrierInv, ExceedLimit
  PROVE  LastStep
<1>1. PICK t, a :
        /\ Pass(t, a) /\ queue' = {} /\ status' = "failed" /\ UNCHANGED playVars
        /\ runCode' = IF steps < scenario.maxSteps THEN "run.max_visits_per_node" ELSE "run.max_steps"
        /\ Emit(<<Event("run.limit_exceeded", a.token.time, a.token, runCode')>>)
  BY DEF ExceedLimit
<1>2. runCode' \in Codes
  BY <1>1 DEF Codes
<1>3. /\ First(t) /\ a \in Activations(t) /\ status = "running" /\ UNCHANGED scenario
  BY <1>1 DEF Pass
<1>4. a.token.node \in Nodes /\ a.token.id \in Nat /\ a.token.time \in Nat
  BY <1>3, ActivationFacts DEF First, TokenInv, IsToken
<1> DEFINE exceeded == Event("run.limit_exceeded", a.token.time, a.token, runCode')
           new == <<exceeded>>
<1>5. exceeded \in EventRecord /\ exceeded.type \in Journal!TerminalTypes
  BY <1>2, <1>4, PassingTypes DEF Event, EventRecord
<1>6. events' = events \o new
  BY <1>1 DEF Emit
<1> HIDE DEF exceeded
<1>7. /\ new \in Seq(EventRecord) /\ Len(new) > 0 /\ new[Len(new)].type \in Journal!TerminalTypes
      /\ \A i \in 1..Len(new) - 1 : new[i].type \in Passing
  BY <1>5
<1> HIDE DEF new
<1>8. status = "running" /\ status' \in {"completed", "failed"} /\ queue' = {}
      /\ UNCHANGED <<scenario, steps, visits, tokens>>
  BY <1>1, <1>3 DEF playVars
<1> QED
  BY <1>2, <1>6, <1>7, <1>8 DEF LastStep

\* The verdict is the end, and the barriers left over are reported before it.
LEMMA FinishIsLast ==
  ASSUME CallInv, BarrierInv, EventInv, Finish
  PROVE  LastStep
<1> DEFINE verdict(last) ==
             [type |-> IF CodeAtEnd = "" THEN "run.completed" ELSE "run.failed",
              time |-> last, node |-> scenario.trigger, token |-> 0, code |-> CodeAtEnd]
           stuck(order) == [i \in 1..Len(order) |-> Deadlock(order[i])]
<1>1. PICK last \in Times, order \in BarrierOrders :
        /\ status = "running" /\ queue = {} /\ runCode' = CodeAtEnd
        /\ status' = IF CodeAtEnd = "" THEN "completed" ELSE "failed"
        /\ Emit(stuck(order) \o <<verdict(last)>>)
        /\ UNCHANGED <<scenario, queue, barriers, resolved, playVars>>
  BY DEF Finish
<1>2. CodeAtEnd \in Codes
  BY DEF CodeAtEnd, CallInv, Codes
<1>3. last \in Nat
  <2>1. PICK i \in 1..Len(events) : last = events[i].time
    BY <1>1 DEF Times
  <2>2. events[i] \in EventRecord
    BY DEF EventInv
  <2> QED
    BY <2>1, <2>2 DEF EventRecord
<1>4. verdict(last) \in EventRecord /\ verdict(last).type \in Journal!TerminalTypes
  BY <1>2, <1>3, ScenarioFacts, PassingTypes DEF EventRecord
<1>5. order \in Seq(DOMAIN barriers)
  BY <1>1, ListedInOrder DEF BarrierOrders, BarrierInv
<1>6. ASSUME NEW k \in DOMAIN barriers
      PROVE  Deadlock(k) \in EventRecord /\ Deadlock(k).type \in Passing
  <2>1. k.node \in Nodes /\ barriers[k].time \in Nat
    BY DEF BarrierInv
  <2>2. "run.deadlock" \in Codes
    BY DEF Codes
  <2> QED
    BY <2>1, <2>2, PassingTypes DEF Deadlock, EventRecord
<1>7. /\ stuck(order) \in Seq(EventRecord)
      /\ \A i \in 1..Len(stuck(order)) : stuck(order)[i].type \in Passing
  <2>1. Len(order) \in Nat /\ \A i \in 1..Len(order) : order[i] \in DOMAIN barriers
    BY <1>5
  <2>2. \A i \in 1..Len(order) : /\ Deadlock(order[i]) \in EventRecord
                                 /\ Deadlock(order[i]).type \in Passing
    BY <2>1, <1>6
  <2> QED
    BY <2>1, <2>2
<1> HIDE DEF verdict
<1> DEFINE waiting == stuck(order)
           closing == <<verdict(last)>>
           new == waiting \o closing
<1>8. closing \in Seq(EventRecord) /\ Len(closing) = 1
      /\ closing[1].type \in Journal!TerminalTypes
  BY <1>4
<1>9. events' = events \o new
  BY <1>1 DEF Emit
<1>10. waiting \in Seq(EventRecord) /\ \A i \in 1..Len(waiting) : waiting[i].type \in Passing
  BY <1>7
<1> HIDE DEF waiting, closing
<1>11. /\ new \in Seq(EventRecord) /\ Len(new) = Len(waiting) + Len(closing)
       /\ \A i \in 1..Len(waiting) + Len(closing) :
            new[i] = IF i <= Len(waiting) THEN waiting[i] ELSE closing[i - Len(waiting)]
  BY <1>8, <1>10, ConcatProperties, Zenon
<1> HIDE DEF new
<1>12. /\ Len(new) > 0 /\ new[Len(new)].type \in Journal!TerminalTypes
       /\ \A i \in 1..Len(new) - 1 : new[i].type \in Passing
  <2>1. Len(waiting) \in Nat /\ Len(new) = Len(waiting) + 1
    BY <1>8, <1>10, <1>11
  <2>2. new[Len(new)] = closing[1]
    <3>1. Len(new) \in 1..Len(waiting) + Len(closing) /\ ~(Len(new) <= Len(waiting))
          /\ Len(new) - Len(waiting) = 1
      BY <2>1, <1>8
    <3> QED
      BY <3>1, <1>11
  <2>3. ASSUME NEW i \in 1..Len(new) - 1
        PROVE  new[i].type \in Passing
    BY <2>1, <1>8, <1>10, <1>11
  <2> QED
    BY <2>1, <2>2, <2>3, <1>8
<1>13. status = "running" /\ status' \in {"completed", "failed"} /\ queue' = {} /\ runCode' \in Codes
       /\ UNCHANGED <<scenario, steps, visits, tokens>>
  BY <1>1, <1>2 DEF playVars
<1> QED
  BY <1>9, <1>11, <1>12, <1>13 DEF LastStep

\* Every step of the loop is of one of the three kinds.
LEMMA KindsOfSteps ==
  ASSUME IInv, [Next]_vars
  PROVE  UNCHANGED vars \/ StopStep \/ VisitStep \/ LastStep
BY StopIsStop, FailVisitIsVisit, ReachEndIsVisit, InvalidChoiceIsVisit, TraverseIsVisit,
   ExceedLimitIsLast, FinishIsLast
   DEF IInv, Next

-------------------------------------------------------------------------------
(* Each kind of step preserves the invariant.                               *)

\* The events so far stay where they are, and the new ones follow.
LEMMA Appended ==
  ASSUME EventInv, NEW new \in Seq(EventRecord), events' = events \o new
  PROVE  /\ events' \in Seq(EventRecord) /\ Len(events) \in Nat /\ Len(new) \in Nat
         /\ Len(events') = Len(events) + Len(new)
         /\ \A i \in 1..Len(events) : events'[i] = events[i]
         /\ \A i \in 1..Len(new) : events'[Len(events) + i] = new[i]
<1>1. events \in Seq(EventRecord)
  BY DEF EventInv
<1>2. /\ events \o new \in Seq(EventRecord) /\ Len(events \o new) = Len(events) + Len(new)
      /\ \A i \in 1..Len(events) + Len(new) :
           (events \o new)[i] = IF i <= Len(events) THEN events[i] ELSE new[i - Len(events)]
  BY <1>1, ConcatProperties, Zenon
<1>3. Len(events) \in Nat /\ Len(new) \in Nat
  BY <1>1
<1>4. ASSUME NEW i \in 1..Len(new)
      PROVE  events'[Len(events) + i] = new[i]
  <2>1. Len(events) + i \in 1..Len(events) + Len(new) /\ ~(Len(events) + i <= Len(events))
        /\ (Len(events) + i) - Len(events) = i
    BY <1>3
  <2> QED
    BY <2>1, <1>2
<1> QED
  BY <1>2, <1>3, <1>4

\* What is known of the events that have started visits.
LEMMA StartFacts ==
  ASSUME EventInv
  PROVE  /\ IsFiniteSet(Starts) /\ Starts \subseteq 1..Len(events)
         /\ \A i \in Starts : events[i].time \in Nat /\ events[i].node \in Nodes
<1>1. events \in Seq(EventRecord) /\ Len(events) \in Nat
  BY DEF EventInv
<1>2. Starts \subseteq 1..Len(events)
  BY DEF Starts
<1>3. IsFiniteSet(1..Len(events))
  BY <1>1, FS_Interval
<1>4. \A i \in Starts : events[i] \in EventRecord
  BY <1>1, <1>2
<1> QED
  BY <1>2, <1>3, <1>4, FS_Subset DEF EventRecord

\* A step that starts no visit leaves the visits as they are.
LEMMA NoNewStart ==
  ASSUME EventInv, NEW new \in Seq(EventRecord), events' = events \o new,
         \A i \in 1..Len(new) : new[i].type # "node.started"
  PROVE  Starts' = Starts /\ \A i \in Starts : events'[i] = events[i]
<1>1. \A i \in 1..Len(events') : i \in 1..Len(events) \/ i - Len(events) \in 1..Len(new)
  BY Appended
<1>2. \A i \in 1..Len(events') : i \in 1..Len(events) \/ events'[i].type # "node.started"
  <2> SUFFICES ASSUME NEW i \in 1..Len(events'), i \notin 1..Len(events)
               PROVE  events'[i].type # "node.started"
    OBVIOUS
  <2>1. i - Len(events) \in 1..Len(new) /\ Len(events) + (i - Len(events)) = i
    BY <1>1, Appended
  <2> QED
    BY <2>1, Appended
<1>3. 1..Len(events) \subseteq 1..Len(events')
  BY Appended
<1> QED
  BY <1>2, <1>3, Appended DEF Starts

\* A visit step adds one start, after all the others.
LEMMA OneNewStart ==
  ASSUME EventInv, NEW new \in Seq(EventRecord), events' = events \o new, Len(new) > 0,
         new[1].type = "node.started", \A i \in 2..Len(new) : new[i].type # "node.started"
  PROVE  /\ Starts' = Starts \cup {Len(events) + 1} /\ Len(events) + 1 \notin Starts
         /\ \A i \in Starts : events'[i] = events[i] /\ i < Len(events) + 1
         /\ events'[Len(events) + 1] = new[1]
<1>1. Starts \subseteq 1..Len(events) /\ Len(events) \in Nat /\ Len(new) \in Nat
  BY Appended DEF Starts
<1>2. events'[Len(events) + 1] = new[1] /\ Len(events) + 1 \in 1..Len(events')
  BY Appended, <1>1
<1>3. ASSUME NEW i \in 1..Len(events'), i \notin 1..Len(events), i # Len(events) + 1
      PROVE  events'[i].type # "node.started"
  <2>1. i - Len(events) \in 2..Len(new) /\ Len(events) + (i - Len(events)) = i
    BY <1>1, <1>3, Appended
  <2>2. events'[Len(events) + (i - Len(events))] = new[i - Len(events)]
    BY <1>1, <2>1, Appended
  <2> QED
    BY <2>1, <2>2
<1>4. 1..Len(events) \subseteq 1..Len(events') /\ \A i \in 1..Len(events) : events'[i] = events[i]
  BY Appended
<1>5. Starts' = Starts \cup {Len(events) + 1}
  BY <1>2, <1>3, <1>4 DEF Starts
<1> QED
  BY <1>1, <1>2, <1>4, <1>5

\* The call and its tokens stay typed.
LEMMA CallAndTokens ==
  ASSUME CallInv, TokenInv, StopStep \/ VisitStep \/ LastStep
  PROVE  CallInv' /\ TokenInv'
<1>1. CASE StopStep
  BY <1>1 DEF StopStep, CallInv, TokenInv, IsToken, Nodes
<1>2. CASE VisitStep
  BY <1>2 DEF VisitStep, CallInv, TokenInv, IsToken, Nodes
<1>3. CASE LastStep
  BY <1>3 DEF LastStep, CallInv, TokenInv
<1> QED
  BY <1>1, <1>2, <1>3

\* A verdict stays last: there is none while the call runs, and the last step adds one.
LEMMA VerdictComesLast ==
  ASSUME EventInv, StopStep \/ VisitStep \/ LastStep
  PROVE  EventInv'
<1>1. ASSUME status = "running", status' = "running", UNCHANGED scenario,
             NEW new \in Seq(EventRecord), events' = events \o new,
             \A i \in 1..Len(new) : new[i].type \notin Journal!TerminalTypes
      PROVE  EventInv'
  <2>1. events' \in Seq(EventRecord')
    BY <1>1, Appended DEF EventRecord, Nodes
  <2>2. ASSUME NEW i \in 1..Len(events')
        PROVE  events'[i].type \notin Journal!TerminalTypes
    <3>1. CASE i \in 1..Len(events)
      BY <3>1, <1>1, Appended DEF EventInv
    <3>2. CASE i \notin 1..Len(events)
      <4>1. i - Len(events) \in 1..Len(new) /\ Len(events) + (i - Len(events)) = i
        BY <3>2, <1>1, Appended
      <4>2. events'[Len(events) + (i - Len(events))] = new[i - Len(events)]
        BY <4>1, <1>1, Appended
      <4> QED
        BY <4>1, <4>2, <1>1
    <3> QED
      BY <3>1, <3>2
  <2> QED
    BY <1>1, <2>1, <2>2 DEF EventInv
<1>2. CASE StopStep
  <2>1. PICK e \in EventRecord : /\ e.type \in Passing /\ events' = events \o <<e>>
                                 /\ status = "running" /\ UNCHANGED <<scenario, status>>
    BY <1>2 DEF StopStep
  <2>2. /\ <<e>> \in Seq(EventRecord)
        /\ \A i \in 1..Len(<<e>>) : <<e>>[i].type \notin Journal!TerminalTypes
    BY <2>1, PassingTypes
  <2> QED
    BY <1>1, <2>1, <2>2
<1>3. CASE VisitStep
  <2>1. PICK new \in Seq(EventRecord) :
          /\ events' = events \o new /\ Len(new) > 0 /\ new[1].type = "node.started"
          /\ \A i \in 2..Len(new) : new[i].type \in Passing
          /\ status = "running" /\ UNCHANGED <<scenario, status>>
    BY <1>3 DEF VisitStep
  <2>2. \A i \in 1..Len(new) : i = 1 \/ i \in 2..Len(new)
    BY <2>1
  <2> QED
    BY <1>1, <2>1, <2>2, PassingTypes
<1>4. CASE LastStep
  <2>1. PICK new \in Seq(EventRecord) :
          /\ events' = events \o new /\ Len(new) > 0
          /\ new[Len(new)].type \in Journal!TerminalTypes
          /\ \A i \in 1..Len(new) - 1 : new[i].type \in Passing
          /\ status = "running" /\ status' # "running" /\ UNCHANGED scenario
    BY <1>4 DEF LastStep
  <2>2. events' \in Seq(EventRecord')
    BY <2>1, Appended DEF EventRecord, Nodes
  <2>3. Len(events') = Len(events) + Len(new) /\ Len(events) \in Nat /\ Len(new) \in Nat
    BY <2>1, Appended
  <2>4. events'[Len(events')] = new[Len(new)]
    BY <2>1, <2>3, Appended
  <2>5. ASSUME NEW i \in 1..Len(events'), i # Len(events')
        PROVE  events'[i].type \notin Journal!TerminalTypes
    <3>1. CASE i \in 1..Len(events)
      BY <3>1, <2>1, Appended DEF EventInv
    <3>2. CASE i \notin 1..Len(events)
      <4>1. i - Len(events) \in 1..Len(new) - 1 /\ Len(events) + (i - Len(events)) = i
        BY <3>2, <2>3, <2>5
      <4>2. events'[Len(events) + (i - Len(events))] = new[i - Len(events)]
        BY <4>1, <2>1, <2>3, Appended
      <4> QED
        BY <4>1, <4>2, <2>1, PassingTypes
    <3> QED
      BY <3>1, <3>2
  <2>6. events' # <<>>
    BY <2>1, <2>3
  <2> QED
    BY <2>1, <2>2, <2>4, <2>5, <2>6 DEF EventInv
<1> QED
  BY <1>2, <1>3, <1>4

\* Visits start in the order of time.
LEMMA TimeMovesOn ==
  ASSUME CallInv, TokenInv, EventInv, VisitsInTimeOrder, StopStep \/ VisitStep \/ LastStep
  PROVE  VisitsInTimeOrder'
<1>1. ASSUME NEW new \in Seq(EventRecord), events' = events \o new,
             \A i \in 1..Len(new) : new[i].type # "node.started", queue' \subseteq queue
      PROVE  VisitsInTimeOrder'
  <2>1. Starts' = Starts /\ \A i \in Starts : events'[i] = events[i]
    BY <1>1, NoNewStart
  <2> QED
    BY <2>1, <1>1 DEF VisitsInTimeOrder
<1>2. CASE StopStep
  <2>1. PICK e \in EventRecord : /\ e.type \in Passing /\ events' = events \o <<e>>
                                 /\ queue' \subseteq queue
    BY <1>2 DEF StopStep
  <2>2. /\ <<e>> \in Seq(EventRecord)
        /\ \A i \in 1..Len(<<e>>) : <<e>>[i].type # "node.started"
    BY <2>1, PassingTypes
  <2> QED
    BY <1>1, <2>1, <2>2
<1>3. CASE VisitStep
  <2>1. PICK t \in queue, new \in Seq(EventRecord) :
          /\ First(t) /\ events' = events \o new /\ Len(new) > 0
          /\ new[1].type = "node.started" /\ new[1].time = t.time
          /\ \A i \in 2..Len(new) : new[i].type \in Passing
          /\ \A u \in queue' : u \in queue \/ (IsToken(u) /\ t.time <= u.time)
    BY <1>3 DEF VisitStep
  <2>2. \A i \in 2..Len(new) : new[i].type # "node.started"
    BY <2>1, PassingTypes
  <2>3. /\ Starts' = Starts \cup {Len(events) + 1} /\ Len(events) + 1 \notin Starts
        /\ \A i \in Starts : events'[i] = events[i] /\ i < Len(events) + 1
        /\ events'[Len(events) + 1] = new[1]
    BY <2>1, <2>2, OneNewStart
  <2>4. \A u \in queue' : u.time \in Nat /\ t.time <= u.time
    BY <2>1, FirstIsEarliest DEF TokenInv, IsToken
  <2>5. \A i \in Starts : events[i].time \in Nat /\ events[i].time <= t.time
    BY <2>1, StartFacts DEF VisitsInTimeOrder
  <2>6. t.time \in Nat
    BY <2>1 DEF TokenInv, IsToken
  <2>7. ASSUME NEW i \in Starts', NEW u \in queue'
        PROVE  events'[i].time <= u.time
    <3>1. u.time \in Nat /\ t.time <= u.time
      BY <2>4
    <3>2. CASE i \in Starts
      <4>1. events'[i].time = events[i].time /\ events[i].time \in Nat /\ events[i].time <= t.time
        BY <3>2, <2>3, <2>5
      <4> QED
        BY <4>1, <3>1, <2>6
    <3>3. CASE i = Len(events) + 1
      BY <3>1, <3>3, <2>1, <2>3
    <3> QED
      BY <3>2, <3>3, <2>3
  <2>8. ASSUME NEW i \in Starts', NEW j \in Starts', i < j
        PROVE  events'[i].time <= events'[j].time
    <3>0. Starts \subseteq Nat /\ Len(events) \in Nat
      BY StartFacts DEF EventInv
    <3>1. i \in Starts
      BY <2>3, <2>8, <3>0
    <3>2. CASE j \in Starts
      BY <3>1, <3>2, <2>3, <2>8 DEF VisitsInTimeOrder
    <3>3. CASE j = Len(events) + 1
      BY <3>1, <3>3, <2>1, <2>3, <2>5
    <3> QED
      BY <3>2, <3>3, <2>3
  <2> QED
    BY <2>7, <2>8 DEF VisitsInTimeOrder
<1>4. CASE LastStep
  <2>1. PICK new \in Seq(EventRecord) :
          /\ events' = events \o new /\ Len(new) > 0 /\ queue' = {}
          /\ new[Len(new)].type \in Journal!TerminalTypes
          /\ \A i \in 1..Len(new) - 1 : new[i].type \in Passing
    BY <1>4 DEF LastStep
  <2>2. \A i \in 1..Len(new) : i = Len(new) \/ i \in 1..Len(new) - 1
    BY <2>1
  <2> QED
    BY <1>1, <2>1, <2>2, PassingTypes
<1> QED
  BY <1>2, <1>3, <1>4

\* No visit starts beyond a limit, and the counters count the visits that started.
LEMMA CountsAgree ==
  ASSUME CallInv, EventInv, TokenInv, CountInv, StopStep \/ VisitStep \/ LastStep
  PROVE  CountInv'
<1>1. ASSUME NEW new \in Seq(EventRecord), events' = events \o new,
             \A i \in 1..Len(new) : new[i].type # "node.started",
             UNCHANGED <<scenario, steps, visits>>
      PROVE  CountInv'
  <2>1. Starts' = Starts /\ \A i \in Starts : events'[i] = events[i]
    BY <1>1, NoNewStart
  <2>2. \A n \in Nodes : {i \in Starts' : events'[i].node = n} = {i \in Starts : events[i].node = n}
    BY <2>1
  <2> QED
    BY <2>1, <2>2, <1>1 DEF CountInv, LimitsHold, Nodes
<1>2. CASE StopStep
  <2>1. PICK e \in EventRecord : /\ e.type \in Passing /\ events' = events \o <<e>>
                                 /\ UNCHANGED <<scenario, steps, visits>>
    BY <1>2 DEF StopStep
  <2>2. /\ <<e>> \in Seq(EventRecord)
        /\ \A i \in 1..Len(<<e>>) : <<e>>[i].type # "node.started"
    BY <2>1, PassingTypes
  <2> QED
    BY <1>1, <2>1, <2>2
<1>3. CASE VisitStep
  <2>1. PICK t \in queue, new \in Seq(EventRecord) :
          /\ WithinLimits(t.node) /\ events' = events \o new /\ Len(new) > 0
          /\ new[1].type = "node.started" /\ new[1].node = t.node
          /\ \A i \in 2..Len(new) : new[i].type \in Passing
          /\ steps' = steps + 1 /\ visits' = [visits EXCEPT ![t.node] = @ + 1]
          /\ UNCHANGED scenario
    BY <1>3 DEF VisitStep
  <2>2. \A i \in 2..Len(new) : new[i].type # "node.started"
    BY <2>1, PassingTypes
  <2> DEFINE last == Len(events) + 1
             at(n) == {i \in Starts : events[i].node = n}
  <2>3. /\ Starts' = Starts \cup {last} /\ last \notin Starts
        /\ \A i \in Starts : events'[i] = events[i]
        /\ events'[last].node = t.node
    BY <2>1, <2>2, OneNewStart
  <2>4. t.node \in Nodes
    BY <2>1 DEF TokenInv, IsToken
  <2>5. IsFiniteSet(Starts) /\ Cardinality(Starts') = Cardinality(Starts) + 1
    BY <2>3, StartFacts, FS_AddElement
  <2>6. ASSUME NEW n \in Nodes
        PROVE  visits'[n] = Cardinality({i \in Starts' : events'[i].node = n})
    <3>1. IsFiniteSet(at(n)) /\ last \notin at(n)
      BY <2>3, <2>5, FS_Subset
    <3>2. visits[n] = Cardinality(at(n)) /\ visits[n] \in Nat
      BY DEF CountInv, LimitsHold
    <3>3. CASE n = t.node
      <4>1. {i \in Starts' : events'[i].node = n} = at(n) \cup {last}
        BY <2>3, <3>3
      <4>2. Cardinality(at(n) \cup {last}) = Cardinality(at(n)) + 1
        BY <3>1, FS_AddElement
      <4>3. visits'[n] = visits[n] + 1
        BY <2>1, <2>4, <3>3 DEF CountInv
      <4> QED
        BY <4>1, <4>2, <4>3, <3>2
    <3>4. CASE n # t.node
      <4>1. {i \in Starts' : events'[i].node = n} = at(n)
        BY <2>3, <3>4
      <4>2. visits'[n] = visits[n]
        BY <2>1, <2>4, <3>4 DEF CountInv
      <4> QED
        BY <4>1, <4>2, <3>2
    <3> QED
      BY <3>3, <3>4
  <2>7. steps' \in Nat /\ steps' <= scenario.maxSteps /\ steps' = Cardinality(Starts')
    BY <2>1, <2>5, ScenarioFacts DEF CountInv, LimitsHold, WithinLimits
  <2>8. visits' \in [Nodes -> Nat] /\ \A n \in Nodes : visits'[n] <= scenario.maxVisits
    BY <2>1, <2>4, ScenarioFacts DEF CountInv, LimitsHold, WithinLimits
  <2> HIDE DEF at, last
  <2> QED
    BY <2>1, <2>6, <2>7, <2>8 DEF CountInv, LimitsHold, Nodes
<1>4. CASE LastStep
  <2>1. PICK new \in Seq(EventRecord) :
          /\ events' = events \o new /\ Len(new) > 0 /\ UNCHANGED <<scenario, steps, visits>>
          /\ new[Len(new)].type \in Journal!TerminalTypes
          /\ \A i \in 1..Len(new) - 1 : new[i].type \in Passing
    BY <1>4 DEF LastStep
  <2>2. \A i \in 1..Len(new) : i = Len(new) \/ i \in 1..Len(new) - 1
    BY <2>1
  <2> QED
    BY <1>1, <2>1, <2>2, PassingTypes
<1> QED
  BY <1>2, <1>3, <1>4

-------------------------------------------------------------------------------
(* Barriers: they change at joins only, and never get ahead of the queue.   *)

\* What leaves the barriers as they were, or fewer.
BarriersShrink ==
  /\ DOMAIN barriers' \subseteq DOMAIN barriers
  /\ \A k \in DOMAIN barriers' : barriers'[k] = barriers[k]

\* Only a token that waits for its siblings changes a barrier.
LEMMA BarriersOfStep ==
  ASSUME IInv, [Next]_vars
  PROVE  BarriersShrink \/ AwaitSiblings
<1>1. CASE UNCHANGED barriers
  BY <1>1 DEF BarriersShrink
<1>2. CASE MergeConflict
  BY <1>2 DEF MergeConflict, Others, BarriersShrink
<1>3. ASSUME NEW t, NEW a, Pass(t, a)
      PROVE  BarriersShrink
  BY <1>3, ActivationFacts DEF Pass, IInv, BarriersShrink
<1> QED
  BY <1>1, <1>2, <1>3 DEF Next, vars, Uncorrelated, AnyAlreadyResolved, DuplicateBranch, ExceedLimit,
     FailVisit, ReachEnd, InvalidChoice, Traverse, Visit, Finish

\* What a step leaves in the queue is not earlier than what was there.
LEMMA QueueMovesOn ==
  ASSUME TokenInv, StopStep \/ VisitStep \/ LastStep, NEW u \in queue', NEW time \in Nat,
         \A t \in queue : time <= t.time
  PROVE  time <= u.time
<1>1. CASE StopStep
  BY <1>1 DEF StopStep
<1>2. CASE VisitStep
  <2>1. PICK t \in queue : u \in queue \/ (IsToken(u) /\ t.time <= u.time)
    BY <1>2 DEF VisitStep
  <2> QED
    BY <2>1 DEF TokenInv, IsToken
<1>3. CASE LastStep
  BY <1>3 DEF LastStep
<1> QED
  BY <1>1, <1>2, <1>3

\* No barrier gets ahead of the queue: a token of the queue sets its time.
LEMMA BarriersFollow ==
  ASSUME IInv, [Next]_vars, StopStep \/ VisitStep \/ LastStep
  PROVE  BarrierInv'
<1>0. Nodes' = Nodes
  BY DEF StopStep, VisitStep, LastStep, Nodes
<1>1. CASE BarriersShrink
  <2>1. IsFiniteSet(DOMAIN barriers')
    BY <1>1, FS_Subset DEF BarriersShrink, IInv, BarrierInv
  <2>2. ASSUME NEW k \in DOMAIN barriers'
        PROVE  /\ k.node \in Nodes /\ barriers'[k].time \in Nat
               /\ \A t \in queue' : barriers'[k].time <= t.time
    <3>1. k \in DOMAIN barriers /\ barriers'[k] = barriers[k]
      BY <1>1 DEF BarriersShrink
    <3>2. k.node \in Nodes /\ barriers[k].time \in Nat /\ \A t \in queue : barriers[k].time <= t.time
      BY <3>1 DEF IInv, BarrierInv
    <3> QED
      BY <3>1, <3>2, QueueMovesOn DEF IInv
  <2> QED
    BY <1>0, <2>1, <2>2 DEF BarrierInv
<1>2. CASE AwaitSiblings
  <2>1. PICK t \in queue : /\ Take(t)
                           /\ barriers' = [k \in DOMAIN barriers \cup {Key(t)} |->
                                            IF k = Key(t) THEN Arrival(t) ELSE barriers[k]]
    BY <1>2 DEF AwaitSiblings
  <2>2. /\ First(t) /\ queue' \subseteq queue /\ t.node \in Nodes /\ t.time \in Nat
    BY <2>1 DEF Take, IInv, TokenInv, IsToken
  <2>3. Arrival(t).time = t.time
    BY <2>2, ArrivalTime DEF IInv
  <2>4. IsFiniteSet(DOMAIN barriers')
    BY <2>1, FS_AddElement DEF IInv, BarrierInv
  <2>5. ASSUME NEW k \in DOMAIN barriers'
        PROVE  /\ k.node \in Nodes /\ barriers'[k].time \in Nat
               /\ \A u \in queue' : barriers'[k].time <= u.time
    <3>1. CASE k = Key(t)
      <4>1. barriers'[k].time = t.time
        BY <3>1, <2>1, <2>3
      <4>2. k.node = t.node
        BY <3>1 DEF Key
      <4> QED
        BY <4>1, <4>2, <2>2, FirstIsEarliest DEF IInv
    <3>2. CASE k # Key(t)
      <4>1. k \in DOMAIN barriers /\ barriers'[k] = barriers[k]
        BY <3>2, <2>1
      <4> QED
        BY <4>1, <2>2 DEF IInv, BarrierInv
    <3> QED
      BY <3>1, <3>2
  <2> QED
    BY <1>0, <2>4, <2>5 DEF BarrierInv
<1> QED
  BY <1>1, <1>2, BarriersOfStep

-------------------------------------------------------------------------------
(* The theorems.                                                            *)

\* A call starts in the invariant.
LEMMA InitEstablishes ==
  ASSUME Init
  PROVE  IInv
<1> DEFINE start  == [id |-> 1, node |-> scenario.trigger, edge |-> 0,
                      context |-> WithVariableDefaults(scenario.variables, scenario.input),
                      writes |-> Absent, lineage |-> <<>>, time |-> 0]
           begun  == [type |-> "run.started", time |-> 0, node |-> scenario.trigger, token |-> 0, code |-> ""]
           queued == [type |-> "node.queued", time |-> 0, node |-> scenario.trigger, token |-> 1, code |-> ""]
<1>0. \A t \in queue : t.id = 1 /\ t.node = scenario.trigger /\ t.time = 0
  <2>1. start.id = 1 /\ start.node = scenario.trigger /\ start.time = 0
    OBVIOUS
  <2>2. queue = {start}
    BY Zenon DEF Init
  <2> HIDE DEF start
  <2> QED
    BY <2>1, <2>2
<1> HIDE DEF start
<1>1. /\ scenario \in Scenarios /\ status = "running" /\ steps = 0 /\ tokens = 1
      /\ visits = [n \in Nodes |-> 0] /\ runCode = ""
  BY Zenon DEF Init
<1>2. CallInv
  BY <1>1 DEF CallInv, Codes
<1>3. scenario.trigger \in Nodes /\ scenario.maxSteps \in Nat /\ scenario.maxVisits \in Nat
  BY <1>2, ScenarioFacts
<1>4. TokenInv
  <2>1. \A t \in queue : IsToken(t)
    <3> SUFFICES ASSUME NEW t \in queue
                 PROVE  IsToken(t)
      OBVIOUS
    <3>1. t.id = 1 /\ t.node = scenario.trigger /\ t.time = 0
      BY <1>0
    <3> QED
      BY <3>1, <1>3 DEF IsToken
  <2>2. tokens \in Nat
    BY <1>1
  <2> QED
    BY <2>1, <2>2 DEF TokenInv
<1>5. BarrierInv
  <2>1. barriers = <<>>
    BY Zenon DEF Init
  <2>2. DOMAIN barriers = {}
    BY <2>1
  <2> QED
    BY <2>2, FS_EmptySet DEF BarrierInv
<1>6. /\ begun \in EventRecord /\ queued \in EventRecord
      /\ begun.type = "run.started" /\ queued.type = "node.queued"
  BY <1>3 DEF EventRecord, Codes, Journal!PlannedTypes
<1>6a. events = <<begun, queued>>
  BY Zenon DEF Init
<1> HIDE DEF begun, queued
<1>7. /\ events \in Seq(EventRecord) /\ Len(events) = 2
      /\ \A i \in 1..Len(events) : events[i].type \in {"run.started", "node.queued"}
  <2>1. events \in Seq(EventRecord) /\ Len(events) = 2 /\ events[1] = begun /\ events[2] = queued
    BY <1>6a, <1>6
  <2> QED
    BY <2>1, <1>6
<1>8. EventInv
  BY <1>1, <1>7 DEF EventInv, Journal!TerminalTypes
<1>9. Starts = {} /\ \A n \in Nodes : {i \in Starts : events[i].node = n} = {}
  BY <1>7 DEF Starts
<1>10. CountInv
  <2>1. visits \in [Nodes -> Nat] /\ \A n \in Nodes : visits[n] = 0
    BY <1>1
  <2>2. Cardinality(Starts) = 0
    BY <1>9, FS_EmptySet
  <2>3. \A n \in Nodes : Cardinality({i \in Starts : events[i].node = n}) = 0
    BY <1>9, FS_EmptySet, Zenon
  <2>4. steps = 0 /\ scenario.maxSteps \in Nat /\ scenario.maxVisits \in Nat
    BY <1>1, <1>3
  <2>5. LimitsHold
    BY <2>1, <2>2, <2>3, <2>4 DEF LimitsHold
  <2> QED
    BY <2>1, <2>4, <2>5 DEF CountInv
<1>11. VisitsInTimeOrder
  BY <1>9 DEF VisitsInTimeOrder
<1> QED
  BY <1>2, <1>4, <1>5, <1>8, <1>10, <1>11 DEF IInv

\* Every step of the loop preserves the invariant.
LEMMA StepPreserves ==
  ASSUME IInv, [Next]_vars
  PROVE  IInv'
<1>1. CASE UNCHANGED vars
  BY <1>1 DEF vars, IInv, CallInv, TokenInv, IsToken, BarrierInv, EventInv, EventRecord, Nodes,
              CountInv, LimitsHold, VisitsInTimeOrder, Starts
<1>2. CASE StopStep \/ VisitStep \/ LastStep
  BY <1>2, CallAndTokens, VerdictComesLast, TimeMovesOn, CountsAgree, BarriersFollow DEF IInv
<1> QED
  BY <1>1, <1>2, KindsOfSteps

\* The invariant holds of every flow the simulator accepts, whatever its input and limits.
THEOREM SimulatorInvariant == Spec => []IInv
<1>1. Init => IInv
  BY InitEstablishes
<1>2. IInv /\ [Next]_vars => IInv'
  BY StepPreserves
<1> QED
  BY <1>1, <1>2, PTL DEF Spec

\* Visits start in the order of logical time, and no token waits that is earlier than the last
\* one, joins included (simulator.go:187-195, 296).
THEOREM VisitsKeepTimeOrder == Spec => []VisitsInTimeOrder
<1>1. IInv => VisitsInTimeOrder
  BY DEF IInv
<1> QED
  BY <1>1, SimulatorInvariant, PTL

\* No run makes more visits than its limits, and the counters that are compared with the limits
\* are the numbers of visits announced (simulator.go:299-323).
THEOREM LimitsAreKept == Spec => []LimitsHold
<1>1. IInv => LimitsHold
  BY DEF IInv, CountInv
<1> QED
  BY <1>1, SimulatorInvariant, PTL

\* What a finished call hands to Manager.Start is a plan as RunPlayback assumes its plans:
\* planned events only, and the one verdict comes last (simulator.go:438-495).
THEOREM PlansArePlayable == Spec => []PlanIsPlayable
<1>1. ASSUME IInv, status # "running", NEW i \in 1..Len(events)
      PROVE  /\ events[i].type \in Journal!PlannedTypes
             /\ events[i].type \in Journal!TerminalTypes <=> i = Len(events)
  <2>1. events \in Seq(EventRecord)
    BY <1>1 DEF IInv, EventInv
  <2>2. events[i].type \in Journal!PlannedTypes
    <3>1. events[i] \in EventRecord
      BY <2>1, <1>1
    <3> QED
      BY <3>1 DEF EventRecord
  <2>3. events[i].type \in Journal!TerminalTypes <=> i = Len(events)
    BY <1>1 DEF IInv, EventInv
  <2> QED
    BY <2>2, <2>3
<1>2. IInv => PlanIsPlayable
  BY <1>1 DEF PlanIsPlayable
<1> QED
  BY <1>2, SimulatorInvariant, PTL

-------------------------------------------------------------------------------
(* Lineages: how the frames of two tokens relate.                           *)

\* The frames of one token: inner forks are newer, and a branch is one of its fork.
Nests(l) ==
  \A i \in 1..Len(l) : /\ i + 1 <= Len(l) => l[i].fork < l[i + 1].fork
                       /\ l[i].branch \in l[i].expected

\* The frames of two tokens: where they share a fork, they share all that is outside it.
Agrees(l, m) ==
  \A i \in 1..Len(l), j \in 1..Len(m) :
    l[i].fork = m[j].fork => i = j /\ \A k \in 1..(i - 1) : l[k] = m[k]

Begins(base, l) == Len(base) <= Len(l) /\ \A i \in 1..Len(base) : base[i] = l[i]

\* Two prefixes are equal if they agree at each place.
LEMMA PrefixesAgree ==
  ASSUME NEW S, NEW l \in Seq(S), NEW m \in Seq(S), NEW i \in 1..Len(l), i \in 1..Len(m)
  PROVE  SubSeq(l, 1, i - 1) = SubSeq(m, 1, i - 1) <=> \A k \in 1..(i - 1) : l[k] = m[k]
<1>1. /\ Len(l) \in Nat /\ Len(m) \in Nat /\ i - 1 \in Nat
      /\ i - 1 <= Len(l) /\ i - 1 <= Len(m)
  OBVIOUS
<1>2. ASSUME NEW n \in Seq(S), i - 1 <= Len(n)
      PROVE  SubSeq(n, 1, i - 1) = [k \in 1..(i - 1) |-> n[k]]
  BY <1>1, <1>2
<1>3. /\ SubSeq(l, 1, i - 1) = [k \in 1..(i - 1) |-> l[k]]
      /\ SubSeq(m, 1, i - 1) = [k \in 1..(i - 1) |-> m[k]]
  BY <1>1, <1>2
<1>4. QED
  BY <1>3

\* CorrelationIsSound says this of the tokens that are still to be played or merged.
LEMMA CorrelationOfFrames ==
  ASSUME NEW S, \A t \in Live : t.lineage \in Seq(S)
  PROVE  CorrelationIsSound
           <=> \A t, u \in Live : Nests(t.lineage) /\ Agrees(t.lineage, u.lineage)
<1>1. ASSUME CorrelationIsSound, NEW t \in Live, NEW u \in Live
      PROVE  Nests(t.lineage) /\ Agrees(t.lineage, u.lineage)
  <2>1. Nests(t.lineage)
    BY <1>1 DEF CorrelationIsSound, Nests
  <2>2. Agrees(t.lineage, u.lineage)
    <3>1. SUFFICES ASSUME NEW i \in 1..Len(t.lineage), NEW j \in 1..Len(u.lineage),
                          t.lineage[i].fork = u.lineage[j].fork
                   PROVE  i = j /\ \A k \in 1..(i - 1) : t.lineage[k] = u.lineage[k]
      BY DEF Agrees
    <3>2. i = j /\ SubSeq(t.lineage, 1, i - 1) = SubSeq(u.lineage, 1, i - 1)
      BY <1>1, <3>1 DEF CorrelationIsSound
    <3>3. t.lineage \in Seq(S) /\ u.lineage \in Seq(S)
      OBVIOUS
    <3>4. QED
      BY <3>2, <3>3, PrefixesAgree
  <2>3. QED
    BY <2>1, <2>2
<1>2. ASSUME \A t, u \in Live : Nests(t.lineage) /\ Agrees(t.lineage, u.lineage)
      PROVE  CorrelationIsSound
  <2>1. SUFFICES ASSUME NEW t \in Live, NEW u \in Live,
                        NEW i \in 1..Len(t.lineage), NEW j \in 1..Len(u.lineage),
                        t.lineage[i].fork = u.lineage[j].fork
                 PROVE  i = j /\ SubSeq(t.lineage, 1, i - 1) = SubSeq(u.lineage, 1, j - 1)
    BY <1>2 DEF CorrelationIsSound, Nests
  <2>2. i = j /\ \A k \in 1..(i - 1) : t.lineage[k] = u.lineage[k]
    BY <1>2, <2>1 DEF Agrees
  <2>3. t.lineage \in Seq(S) /\ u.lineage \in Seq(S)
    OBVIOUS
  <2>4. SubSeq(t.lineage, 1, i - 1) = SubSeq(u.lineage, 1, i - 1)
    BY <2>2, <2>3, PrefixesAgree
  <2>5. QED
    BY <2>2, <2>4
<1>3. QED
  BY <1>1, <1>2

\* A token that leaves a join keeps the frames outside the innermost one: what was
\* true of its frames is true of those.
LEMMA OuterFrames ==
  ASSUME NEW S, NEW l \in Seq(S), NEW base \in Seq(S), Begins(base, l)
  PROVE  /\ Nests(l) => Nests(base)
         /\ \A m \in Seq(S) : Agrees(l, m) => Agrees(base, m)
         /\ \A m \in Seq(S) : Agrees(m, l) => Agrees(m, base)
BY SMTT(30) DEF Begins, Nests, Agrees

\* A fork that is new to every token nests in its own frames and is shared with none.
LEMMA NewFrame ==
  ASSUME NEW S, NEW base \in Seq(S), NEW f \in S, NEW n \in Nat, f.fork = n + 1,
         f.branch \in f.expected, \A i \in 1..Len(base) : base[i].fork \in Nat /\ base[i].fork <= n
  PROVE  /\ Nests(base) => Nests(Append(base, f))
         /\ \A m \in Seq(S) : (\A j \in 1..Len(m) : m[j].fork \in Nat /\ m[j].fork <= n) =>
              /\ Agrees(base, m) => Agrees(Append(base, f), m)
              /\ Agrees(m, base) => Agrees(m, Append(base, f))
         /\ \A g \in S : g.fork = n + 1 /\ Agrees(base, base) =>
              Agrees(Append(base, f), Append(base, g))
<1> DEFINE longer == Append(base, f)
<1>1. /\ Len(base) \in Nat /\ Len(longer) = Len(base) + 1 /\ longer[Len(base) + 1] = f
      /\ \A i \in 1..Len(base) : longer[i] = base[i]
  OBVIOUS
<1> HIDE DEF longer
<1>2. Nests(base) => Nests(longer)
  BY <1>1 DEF Nests
<1>3. ASSUME NEW m \in Seq(S), \A j \in 1..Len(m) : m[j].fork \in Nat /\ m[j].fork <= n
      PROVE  /\ Agrees(base, m) => Agrees(longer, m)
             /\ Agrees(m, base) => Agrees(m, longer)
  <2>1. \A j \in 1..Len(m) : m[j].fork # f.fork
    BY <1>3
  <2>2. \A i \in 1..Len(longer) : i \in 1..Len(base) \/ longer[i] = f
    BY <1>1
  <2>3. Agrees(base, m) => Agrees(longer, m)
    BY <1>1, <2>1, <2>2 DEF Agrees
  <2>4. Agrees(m, base) => Agrees(m, longer)
    BY <1>1, <2>1, <2>2 DEF Agrees
  <2>5. QED
    BY <2>3, <2>4
<1>4. ASSUME NEW g \in S, g.fork = n + 1, Agrees(base, base)
      PROVE  Agrees(longer, Append(base, g))
  <2> DEFINE other == Append(base, g)
  <2>1. /\ Len(other) = Len(base) + 1 /\ other[Len(base) + 1] = g
        /\ \A i \in 1..Len(base) : other[i] = base[i]
    OBVIOUS
  <2> HIDE DEF other
  <2>2. SUFFICES ASSUME NEW i \in 1..Len(longer), NEW j \in 1..Len(other),
                        longer[i].fork = other[j].fork
                 PROVE  i = j /\ \A k \in 1..(i - 1) : longer[k] = other[k]
    BY DEF Agrees, other
  <2>3. CASE i \in 1..Len(base) /\ j \in 1..Len(base)
    <3>1. i = j /\ \A k \in 1..(i - 1) : base[k] = base[k]
      BY <1>1, <1>4, <2>1, <2>2, <2>3 DEF Agrees
    <3>2. QED
      BY <3>1, <1>1, <2>1, <2>3
  <2>4. CASE i = Len(base) + 1 /\ j = Len(base) + 1
    BY <1>1, <2>1, <2>4
  <2>5. CASE i \in 1..Len(base) /\ j = Len(base) + 1
    BY <1>1, <1>4, <2>1, <2>2, <2>5
  <2>6. CASE i = Len(base) + 1 /\ j \in 1..Len(base)
    BY <1>1, <1>4, <2>1, <2>2, <2>6
  <2>7. QED
    BY <1>1, <2>1, <2>3, <2>4, <2>5, <2>6
<1>5. QED
  BY <1>2, <1>3, <1>4 DEF longer

-------------------------------------------------------------------------------
(* The tokens that are still to be played or merged.                        *)

\* Token by token, what is played or held was so before.
LiveShrinks == Live' \subseteq Live /\ forks' = forks

\* What is new carries the frames of a token that was there, or those outside its
\* innermost one, and at most one frame more, which is new to all.
LiveForks ==
  /\ forks' \in {forks, forks + 1}
  /\ \E t \in Live : \E base \in Seq(FrameRecord) :
       /\ Begins(base, t.lineage)
       /\ \A u \in Live' : \/ u \in Live
                           \/ u.lineage = base
                           \/ /\ forks' = forks + 1
                              /\ \E f \in FrameRecord : /\ f.fork = forks + 1 /\ f.branch \in f.expected
                                                        /\ u.lineage = Append(base, f)

\* The frames with which a token passes a join.
LEMMA ActivationLineage ==
  ASSUME NEW t, t.lineage \in Seq(FrameRecord), NEW a \in Activations(t)
  PROVE  a.token.lineage \in Seq(FrameRecord) /\ Begins(a.token.lineage, t.lineage)
<1>1. ASSUME t.lineage # <<>>
      PROVE  Front(t.lineage) \in Seq(FrameRecord) /\ Begins(Front(t.lineage), t.lineage)
  BY <1>1 DEF Front, Begins
<1>2. t.lineage \in Seq(FrameRecord) /\ Begins(t.lineage, t.lineage)
  BY DEF Begins
<1>3. CASE ~Waits(t)
  <2>1. a = Past(t, barriers, resolved)
    BY <1>3 DEF Activations, Waits, Completes, Gathers
  <2>2. QED
    BY <2>1, <1>2 DEF Past
<1>4. CASE Waits(t) /\ Node(t.node).mode = "any" /\ ~Stray(t) /\ ~Late(t)
  <2>1. a = Past(Freed(t, t.context, t.writes, t.time), barriers, resolved \cup {Key(t)})
    BY <1>4 DEF Activations, Waits, Completes, Gathers
  <2>2. a.token.lineage = Front(t.lineage) /\ t.lineage # <<>>
    BY <2>1, <1>4 DEF Past, Freed, Stray
  <2>3. QED
    BY <2>2, <1>1
<1>5. CASE Waits(t) /\ ~(Node(t.node).mode = "any" /\ ~Stray(t) /\ ~Late(t)) /\ Completes(t)
  <2>1. PICK m \in Merges(Arrival(t)) :
          a = Past(Freed(t, m.context, m.writes, Arrival(t).time), Others(Key(t)), resolved)
    BY <1>5 DEF Activations
  <2>2. a.token.lineage = Front(t.lineage) /\ t.lineage # <<>>
    BY <2>1, <1>5 DEF Past, Freed, Stray, Completes, Gathers
  <2>3. QED
    BY <2>2, <1>1
<1>6. CASE Waits(t) /\ ~(Node(t.node).mode = "any" /\ ~Stray(t) /\ ~Late(t)) /\ ~Completes(t)
  <2>1. Activations(t) = {}
    BY <1>6 DEF Activations
  <2>2. QED
    BY <2>1
<1>7. QED
  BY <1>3, <1>4, <1>5, <1>6

\* Barriers that shrink hold no token they did not hold.
LEMMA HeldShrinks ==
  ASSUME BarriersShrink
  PROVE  Held' \subseteq Held
<1>1. \A h : h \in Held <=> \E k \in DOMAIN barriers : \E b \in DOMAIN barriers[k].arrivals :
                              h = barriers[k].arrivals[b]
  BY DEF Held
<1>2. \A h : h \in Held' <=> \E k \in DOMAIN barriers' : \E b \in DOMAIN barriers'[k].arrivals :
                               h = barriers'[k].arrivals[b]
  BY DEF Held
<1>3. QED
  BY <1>1, <1>2 DEF BarriersShrink

\* A token that waits for its siblings is held; nothing else changes hands.
LEMMA AwaitingHolds ==
  ASSUME AwaitSiblings
  PROVE  \E t \in queue : /\ Take(t) /\ Emit(<<Event("node.waiting", t.time, t, "")>>)
                          /\ Held' \subseteq Held \cup {t}
<1>1. PICK t \in queue : /\ Take(t) /\ Emit(<<Event("node.waiting", t.time, t, "")>>)
                         /\ barriers' = [k \in DOMAIN barriers \cup {Key(t)} |->
                              IF k = Key(t) THEN Arrival(t) ELSE barriers[k]]
  BY DEF AwaitSiblings
<1>2. \A h : h \in Held <=> \E k \in DOMAIN barriers : \E b \in DOMAIN barriers[k].arrivals :
                              h = barriers[k].arrivals[b]
  BY DEF Held
<1>3. \A h : h \in Held' <=> \E k \in DOMAIN barriers' : \E b \in DOMAIN barriers'[k].arrivals :
                               h = barriers'[k].arrivals[b]
  BY DEF Held
<1>4. \A b \in DOMAIN Arrival(t).arrivals :
        \/ Arrival(t).arrivals[b] = t
        \/ b \in DOMAIN Barrier(t).arrivals /\ Arrival(t).arrivals[b] = Barrier(t).arrivals[b]
  BY DEF Arrival, Gathered
<1>5. \A b \in DOMAIN Barrier(t).arrivals : Barrier(t).arrivals[b] \in Held
  BY <1>2 DEF Barrier
<1>6. Held' \subseteq Held \cup {t}
  <2>1. SUFFICES ASSUME NEW k \in DOMAIN barriers', NEW b \in DOMAIN barriers'[k].arrivals
                 PROVE  barriers'[k].arrivals[b] \in Held \cup {t}
    BY <1>3
  <2>2. CASE k = Key(t)
    BY <2>2, <1>1, <1>4, <1>5
  <2>3. CASE k # Key(t)
    BY <2>3, <1>1, <1>2
  <2>4. QED
    BY <2>2, <2>3
<1> QED
  BY <1>1, <1>6

\* So a token that waits at a join is still live.
LEMMA AwaitingIsHeld ==
  ASSUME AwaitSiblings
  PROVE  Live' \subseteq Live
<1>1. PICK t \in queue : Take(t) /\ Held' \subseteq Held \cup {t}
  BY AwaitingHolds
<1>2. queue' \subseteq queue
  BY <1>1 DEF Take
<1>3. Live = queue \cup Held /\ Live' = queue' \cup Held'
  BY DEF Live
<1> HIDE DEF Held
<1> QED
  BY <1>1, <1>2, <1>3

\* A visit that goes on queues a child for each edge it selects.
LEMMA TraverseForks ==
  ASSUME IInv, JoinInv, Traverse
  PROVE  LiveForks
<1>1. PICK t, a : \E order \in InOrder(Choice(a.token).edges) :
        /\ t \in queue /\ a \in Activations(t) /\ Visit(t, a) /\ forks' = NextFork(Choice(a.token).edges)
        /\ queue' = (queue \ {t}) \cup {Child(a.token, order, i) : i \in 1..Len(order)}
  BY DEF Traverse
<1> DEFINE edges == Choice(a.token).edges
           base  == a.token.lineage
<1>2. PICK order \in InOrder(edges) :
        /\ t \in queue /\ a \in Activations(t) /\ Visit(t, a) /\ forks' = NextFork(edges)
        /\ queue' = (queue \ {t}) \cup {Child(a.token, order, i) : i \in 1..Len(order)}
  BY <1>1
<1>3. t \in Live /\ t.lineage \in Seq(FrameRecord) /\ forks \in Nat
  BY <1>2 DEF Live, JoinInv, LineageInv
<1>4. base \in Seq(FrameRecord) /\ Begins(base, t.lineage)
  BY <1>2, <1>3, ActivationLineage
<1>5. edges \subseteq DOMAIN scenario.edges /\ IsFiniteSet(edges) /\ Cardinality(edges) \in Nat
  BY ChoiceEdges, ScenarioFacts, FS_Subset, FS_CardinalityType DEF IInv
<1>6. order \in Seq(edges)
  BY <1>5, <1>2, ListedInOrder DEF InOrder
<1>7. a.token.node = t.node /\ t.node \in Nodes /\ visits[t.node] + 1 \in Nat
  BY <1>2, VisitFrame DEF IInv, CountInv
<1> HIDE DEF edges, base
<1>8. ASSUME NEW i \in 1..Len(order)
      PROVE  LET lineage == Child(a.token, order, i).lineage
             IN  \/ lineage = base
                 \/ /\ forks' = forks + 1
                    /\ \E f \in FrameRecord : /\ f.fork = forks + 1 /\ f.branch \in f.expected
                                              /\ lineage = Append(base, f)
  <2> DEFINE f == [fork |-> forks + 1, branch |-> order[i], expected |-> edges,
                   iteration |-> visits[a.token.node] + 1]
  <2>1. Child(a.token, order, i).lineage = IF Cardinality(edges) = 1 THEN base ELSE Append(base, f)
    BY DEF Child, Forked, edges, base
  <2>2. order[i] \in edges
    BY <1>6
  <2>3. f \in FrameRecord /\ f.fork = forks + 1 /\ f.branch \in f.expected
    BY <2>2, <1>3, <1>5, <1>7 DEF FrameRecord
  <2>4. Cardinality(edges) # 1 => Cardinality(edges) > 1
    BY <2>2, <1>5, FS_EmptySet
  <2>5. Cardinality(edges) # 1 => forks' = forks + 1
    BY <2>4, <1>2 DEF NextFork
  <2> HIDE DEF f
  <2>6. QED
    BY <2>1, <2>3, <2>5
<1>9. BarriersShrink
  BY <1>2, ActivationFacts DEF Visit, Pass, IInv, BarriersShrink
<1>10. \A u \in Live' : u \in Live \/ \E i \in 1..Len(order) : u = Child(a.token, order, i)
  BY <1>2, <1>9, HeldShrinks DEF Live
<1>11. forks' \in {forks, forks + 1}
  BY <1>2 DEF NextFork
<1>12. QED
  BY <1>3, <1>4, <1>8, <1>10, <1>11 DEF LiveForks

\* Every step keeps the tokens that are there, in shorter lineages or in new forks.
LEMMA LiveOfStep ==
  ASSUME IInv, JoinInv, [Next]_vars
  PROVE  LiveShrinks \/ LiveForks
<1>1. ASSUME BarriersShrink, queue' \subseteq queue, forks' = forks
      PROVE  LiveShrinks
  BY <1>1, HeldShrinks DEF LiveShrinks, Live
<1>2. CASE AwaitSiblings
  BY <1>2, AwaitingIsHeld DEF LiveShrinks, AwaitSiblings, Take, playVars
<1>3. CASE Traverse
  BY <1>3, TraverseForks
<1>4. CASE UNCHANGED vars \/ Uncorrelated \/ AnyAlreadyResolved \/ DuplicateBranch \/ MergeConflict
           \/ ExceedLimit \/ FailVisit \/ ReachEnd \/ InvalidChoice \/ Finish
  <2>1. queue' \subseteq queue /\ forks' = forks
    BY <1>4 DEF vars, Uncorrelated, AnyAlreadyResolved, DuplicateBranch, MergeConflict, ExceedLimit,
       FailVisit, ReachEnd, InvalidChoice, Finish, Take, playVars
  <2>2. CASE BarriersShrink
    BY <2>1, <2>2, <1>1
  <2>3. CASE AwaitSiblings
    BY <2>3, <1>2
  <2>4. QED
    BY <2>2, <2>3, BarriersOfStep
<1>5. QED
  BY <1>2, <1>3, <1>4 DEF Next

-------------------------------------------------------------------------------
(* Joins tell forks apart.                                                  *)

\* The fork of a frame is a number.
LEMMA ForkOfFrame ==
  ASSUME NEW l \in Seq(FrameRecord), NEW i \in 1..Len(l)
  PROVE  l[i].fork \in Nat
<1>1. l[i] \in FrameRecord
  OBVIOUS
<1>2. QED
  BY <1>1 DEF FrameRecord

\* Every token carries frames, with forks that have been counted.
LEMMA LineageStep ==
  ASSUME IInv, JoinInv, [Next]_vars, scenario' = scenario
  PROVE  LineageInv'
<1>1. forks \in Nat /\ FrameRecord' = FrameRecord
  BY DEF JoinInv, LineageInv, FrameRecord
<1>2. \A t \in Live : /\ t.lineage \in Seq(FrameRecord)
                      /\ \A i \in 1..Len(t.lineage) : t.lineage[i].fork <= forks
  BY DEF JoinInv, LineageInv
<1>3. CASE LiveShrinks
  BY <1>1, <1>2, <1>3 DEF LiveShrinks, LineageInv
<1>4. CASE LiveForks
  <2>1. PICK t \in Live, base \in Seq(FrameRecord) :
          /\ Begins(base, t.lineage)
          /\ \A u \in Live' : \/ u \in Live
                              \/ u.lineage = base
                              \/ /\ forks' = forks + 1
                                 /\ \E f \in FrameRecord : /\ f.fork = forks + 1 /\ f.branch \in f.expected
                                                           /\ u.lineage = Append(base, f)
    BY <1>4 DEF LiveForks
  <2>2. forks' \in Nat /\ forks <= forks'
    BY <1>1, <1>4 DEF LiveForks
  <2>3. \A l \in Seq(FrameRecord) : \A i \in 1..Len(l) : l[i].fork \in Nat
    BY ForkOfFrame
  <2>4. \A i \in 1..Len(base) : base[i].fork <= forks
    BY <1>2, <2>1 DEF Begins
  <2>5. SUFFICES ASSUME NEW u \in Live'
                 PROVE  /\ u.lineage \in Seq(FrameRecord)
                        /\ \A i \in 1..Len(u.lineage) : u.lineage[i].fork <= forks'
    BY <1>1, <2>2 DEF LineageInv
  <2>6. CASE u \in Live
    <3>1. \A i \in 1..Len(u.lineage) : u.lineage[i].fork \in Nat /\ u.lineage[i].fork <= forks
      BY <1>2, <2>3, <2>6
    <3>2. QED
      BY <1>1, <1>2, <2>2, <2>6, <3>1
  <2>7. CASE u.lineage = base
    <3>1. \A i \in 1..Len(base) : base[i].fork \in Nat /\ base[i].fork <= forks
      BY <2>3, <2>4
    <3>2. QED
      BY <1>1, <2>2, <2>7, <3>1
  <2>8. ASSUME NEW f \in FrameRecord, f.fork = forks + 1, forks' = forks + 1,
               u.lineage = Append(base, f)
        PROVE  /\ u.lineage \in Seq(FrameRecord)
               /\ \A i \in 1..Len(u.lineage) : u.lineage[i].fork <= forks'
    <3>1. \A i \in 1..Len(base) : base[i].fork \in Nat /\ base[i].fork <= forks
      BY <2>3, <2>4
    <3>2. /\ u.lineage \in Seq(FrameRecord) /\ Len(u.lineage) = Len(base) + 1
          /\ u.lineage[Len(base) + 1] = f
          /\ \A i \in 1..Len(base) : u.lineage[i] = base[i]
      BY <2>8
    <3>3. \A i \in 1..Len(u.lineage) : i \in 1..Len(base) \/ i = Len(base) + 1
      BY <3>2
    <3>4. QED
      BY <1>1, <2>8, <3>1, <3>2, <3>3
  <2>9. QED
    BY <2>1, <2>6, <2>7, <2>8
<1>5. QED
  BY <1>3, <1>4, LiveOfStep

\* A fork adds a frame that is new to all tokens, so what a join compares stays sound.
LEMMA CorrelationStep ==
  ASSUME IInv, JoinInv, [Next]_vars, scenario' = scenario
  PROVE  CorrelationIsSound'
<1>1. \A t \in Live : t.lineage \in Seq(FrameRecord)
  BY DEF JoinInv, LineageInv
<1>2. \A t \in Live : \A i \in 1..Len(t.lineage) :
        t.lineage[i].fork \in Nat /\ t.lineage[i].fork <= forks
  <2>1. \A l \in Seq(FrameRecord) : \A i \in 1..Len(l) : l[i].fork \in Nat
    BY ForkOfFrame
  <2>2. QED
    BY <1>1, <2>1 DEF JoinInv, LineageInv
<1>3. \A t, u \in Live : Nests(t.lineage) /\ Agrees(t.lineage, u.lineage)
  BY <1>1, CorrelationOfFrames DEF JoinInv
<1>4. \A t \in Live' : t.lineage \in Seq(FrameRecord)
  <2>1. FrameRecord' = FrameRecord
    BY DEF FrameRecord
  <2>2. QED
    BY <2>1, LineageStep DEF LineageInv
<1>5. SUFFICES \A t, u \in Live' : Nests(t.lineage) /\ Agrees(t.lineage, u.lineage)
  <2>1. ASSUME \A t, u \in Live' : Nests(t.lineage) /\ Agrees(t.lineage, u.lineage)
        PROVE  CorrelationIsSound'
    <3>0. \A t \in Live' : \A i \in 1..Len(t.lineage) :
            /\ i + 1 <= Len(t.lineage) => t.lineage[i].fork < t.lineage[i + 1].fork
            /\ t.lineage[i].branch \in t.lineage[i].expected
      BY <2>1 DEF Nests
    <3>1. SUFFICES ASSUME NEW t \in Live', NEW u \in Live',
                          NEW i \in 1..Len(t.lineage), NEW j \in 1..Len(u.lineage),
                          t.lineage[i].fork = u.lineage[j].fork
                   PROVE  i = j /\ SubSeq(t.lineage, 1, i - 1) = SubSeq(u.lineage, 1, j - 1)
      <4> HIDE DEF Live
      <4>1. QED
        BY <3>0 DEF CorrelationIsSound
    <3>2. i = j /\ \A k \in 1..(i - 1) : t.lineage[k] = u.lineage[k]
      BY <2>1, <3>1 DEF Agrees
    <3>3. t.lineage \in Seq(FrameRecord) /\ u.lineage \in Seq(FrameRecord)
      BY <1>4
    <3>4. SubSeq(t.lineage, 1, i - 1) = SubSeq(u.lineage, 1, i - 1)
      BY <3>2, <3>3, PrefixesAgree
    <3>5. QED
      BY <3>2, <3>4
  <2>2. QED
    BY <2>1
<1>6. CASE LiveShrinks
  BY <1>3, <1>6 DEF LiveShrinks
<1>7. CASE LiveForks
  <2>1. PICK b \in Live, base \in Seq(FrameRecord) :
          /\ Begins(base, b.lineage)
          /\ \A u \in Live' : \/ u \in Live
                              \/ u.lineage = base
                              \/ /\ forks' = forks + 1
                                 /\ \E f \in FrameRecord : /\ f.fork = forks + 1 /\ f.branch \in f.expected
                                                           /\ u.lineage = Append(base, f)
    BY <1>7 DEF LiveForks
  <2> DEFINE Old(l)   == \E t \in Live : l = t.lineage
             Added(l) == \E f \in FrameRecord : /\ f.fork = forks + 1 /\ f.branch \in f.expected
                                                /\ l = Append(base, f)
  <2>2. \A u \in Live' : Old(u.lineage) \/ u.lineage = base \/ Added(u.lineage)
    BY <2>1
  <2>3. \A i \in 1..Len(base) : base[i].fork \in Nat /\ base[i].fork <= forks
    BY <1>2, <2>1 DEF Begins
  <2>4. /\ b.lineage \in Seq(FrameRecord) /\ forks \in Nat
        /\ \A l : Old(l) => /\ l \in Seq(FrameRecord) /\ Nests(l)
                            /\ Agrees(l, b.lineage) /\ Agrees(b.lineage, l)
                            /\ \A m : Old(m) => Agrees(l, m)
                            /\ \A i \in 1..Len(l) : l[i].fork \in Nat /\ l[i].fork <= forks
    BY <1>1, <1>2, <1>3 DEF JoinInv, LineageInv
  <2> HIDE DEF Old
  <2>5. \A l : Old(l) => Agrees(base, l) /\ Agrees(l, base)
    BY <2>1, <2>4, OuterFrames
  <2>6. Nests(base) /\ Agrees(base, base)
    <3>1. Nests(b.lineage) /\ Agrees(b.lineage, b.lineage)
      BY <1>3
    <3>2. Nests(base) /\ Agrees(base, b.lineage)
      BY <2>1, <2>4, <3>1, OuterFrames
    <3>3. QED
      BY <2>1, <2>4, <3>2, OuterFrames
  <2>7. ASSUME NEW l, Added(l)
        PROVE  /\ Nests(l) /\ Agrees(base, l) /\ Agrees(l, base)
               /\ \A m : Old(m) => Agrees(l, m) /\ Agrees(m, l)
               /\ \A m : Added(m) => Agrees(l, m)
    <3>1. PICK f \in FrameRecord : /\ f.fork = forks + 1 /\ f.branch \in f.expected
                                   /\ l = Append(base, f)
      BY <2>7
    <3>2. /\ Nests(base) => Nests(l)
          /\ \A m \in Seq(FrameRecord) : (\A j \in 1..Len(m) : m[j].fork \in Nat /\ m[j].fork <= forks) =>
               /\ Agrees(base, m) => Agrees(l, m)
               /\ Agrees(m, base) => Agrees(m, l)
          /\ \A g \in FrameRecord : g.fork = forks + 1 /\ Agrees(base, base) =>
               Agrees(l, Append(base, g))
      BY <2>3, <2>4, <3>1, NewFrame
    <3>3. Nests(l) /\ Agrees(base, l) /\ Agrees(l, base)
      BY <2>3, <2>6, <3>2
    <3>4. \A m : Old(m) => Agrees(l, m) /\ Agrees(m, l)
      BY <2>4, <2>5, <3>2
    <3>5. \A m : Added(m) => Agrees(l, m)
      BY <2>6, <3>2
    <3>6. QED
      BY <3>3, <3>4, <3>5
  <2> HIDE DEF Added
  <2>8. QED
    BY <2>2, <2>4, <2>5, <2>6, <2>7
<1>8. QED
  BY <1>6, <1>7, LiveOfStep

\* A token passes an any-join only as the first of its fork, and is remembered.
LEMMA AnyStep ==
  ASSUME IInv, JoinInv, [Next]_vars, scenario' = scenario
  PROVE  (IsFiniteSet(resolved) /\ AnyPassesOnce)'
<1> DEFINE Passed(n) == {k \in resolved : k.node = n}
<1>1. /\ IsFiniteSet(resolved) /\ visits \in [Nodes -> Nat]
      /\ \A n \in Nodes : Node(n).mode = "any" => visits[n] <= Cardinality(Passed(n))
  BY DEF JoinInv, AnyPassesOnce, IInv, CountInv
<1>2. CASE UNCHANGED <<resolved, visits>>
  BY <1>1, <1>2 DEF AnyPassesOnce, Nodes, Node
<1>3. ASSUME NEW t, NEW a, Pass(t, a),
             \/ visits' = visits
             \/ visits' = [visits EXCEPT ![t.node] = @ + 1]
      PROVE  (IsFiniteSet(resolved) /\ AnyPassesOnce)'
  <2>1. First(t) /\ a \in Activations(t) /\ resolved' = a.resolved /\ t.node \in Nodes
    BY <1>3 DEF Pass, First, IInv, TokenInv, IsToken
  <2>2. \/ resolved' = resolved /\ (Node(t.node).mode # "any")
        \/ resolved' = resolved \cup {Key(t)} /\ Key(t) \notin resolved /\ Key(t).node = t.node
    <3>1. CASE ~Waits(t)
      BY <2>1, <3>1 DEF Activations, Waits, Completes, Gathers, Past
    <3>2. CASE Waits(t) /\ Node(t.node).mode = "any" /\ ~Stray(t) /\ ~Late(t)
      BY <2>1, <3>2 DEF Activations, Waits, Completes, Gathers, Past, Late, Key
    <3>3. CASE Waits(t) /\ ~(Node(t.node).mode = "any" /\ ~Stray(t) /\ ~Late(t)) /\ Completes(t)
      <4>1. PICK m \in Merges(Arrival(t)) :
              a = Past(Freed(t, m.context, m.writes, Arrival(t).time), Others(Key(t)), resolved)
        BY <2>1, <3>3 DEF Activations
      <4>2. Node(t.node).mode # "any"
        BY <3>3 DEF Completes, Gathers
      <4>3. QED
        BY <2>1, <4>1, <4>2 DEF Past
    <3>4. CASE Waits(t) /\ ~(Node(t.node).mode = "any" /\ ~Stray(t) /\ ~Late(t)) /\ ~Completes(t)
      <4>1. Activations(t) = {}
        BY <3>4 DEF Activations
      <4>2. QED
        BY <2>1, <4>1
    <3>5. QED
      BY <3>1, <3>2, <3>3, <3>4
  <2>3. IsFiniteSet(resolved')
    BY <1>1, <2>2, FS_AddElement
  <2>4. ASSUME NEW n \in Nodes, Node(n).mode = "any"
        PROVE  visits'[n] <= Cardinality({k \in resolved' : k.node = n})
    <3>1. IsFiniteSet(Passed(n)) /\ Cardinality(Passed(n)) \in Nat /\ visits[n] \in Nat
          /\ visits[n] <= Cardinality(Passed(n))
      BY <1>1, <2>4, FS_Subset, FS_CardinalityType
    <3>2. visits'[n] = IF n = t.node /\ visits' # visits THEN visits[n] + 1 ELSE visits[n]
      BY <1>1, <1>3, <2>1
    <3>3. CASE resolved' = resolved \cup {Key(t)} /\ Key(t) \notin resolved /\ Key(t).node = t.node
      <4>1. CASE n = t.node
        <5>1. {k \in resolved' : k.node = n} = Passed(n) \cup {Key(t)} /\ Key(t) \notin Passed(n)
          BY <3>3, <4>1
        <5>2. Cardinality({k \in resolved' : k.node = n}) = Cardinality(Passed(n)) + 1
          BY <3>1, <5>1, FS_AddElement
        <5>3. QED
          BY <3>1, <3>2, <5>2
      <4>2. CASE n # t.node
        <5>1. {k \in resolved' : k.node = n} = Passed(n)
          BY <3>3, <4>2
        <5>2. QED
          BY <3>1, <3>2, <4>2, <5>1
      <4>3. QED
        BY <4>1, <4>2
    <3>4. CASE resolved' = resolved /\ Node(t.node).mode # "any"
      BY <2>4, <3>1, <3>2, <3>4
    <3>5. QED
      BY <2>2, <3>3, <3>4
  <2>5. QED
    BY <2>3, <2>4 DEF AnyPassesOnce, Nodes, Node
<1>4. CASE ExceedLimit
  BY <1>3, <1>4 DEF ExceedLimit, playVars
<1>5. CASE FailVisit \/ ReachEnd \/ InvalidChoice \/ Traverse
  BY <1>3, <1>5 DEF FailVisit, ReachEnd, InvalidChoice, Traverse, Visit
<1>6. CASE UNCHANGED vars \/ Uncorrelated \/ AnyAlreadyResolved \/ DuplicateBranch \/ AwaitSiblings
           \/ MergeConflict \/ Finish
  BY <1>2, <1>6 DEF vars, Uncorrelated, AnyAlreadyResolved, DuplicateBranch, AwaitSiblings,
     MergeConflict, Finish, Take, playVars
<1>7. QED
  BY <1>4, <1>5, <1>6 DEF Next

\* A call starts with one token, outside all forks.
LEMMA JoinInit ==
  ASSUME Init
  PROVE  JoinInv
<1>1. barriers = <<>> /\ resolved = {} /\ forks = 0 /\ visits = [n \in Nodes |-> 0]
      /\ \A t \in queue : t.lineage = <<>>
  <2> DEFINE start == [id |-> 1, node |-> scenario.trigger, edge |-> 0,
                       context |-> WithVariableDefaults(scenario.variables, scenario.input),
                       writes |-> Absent, lineage |-> <<>>, time |-> 0]
  <2>1. queue = {start} /\ barriers = <<>> /\ resolved = {} /\ forks = 0
        /\ visits = [n \in Nodes |-> 0]
    BY Zenon DEF Init
  <2>2. start.lineage = <<>>
    OBVIOUS
  <2> HIDE DEF start
  <2>3. QED
    BY <2>1, <2>2
<1>2. \A t \in Live : t.lineage = <<>>
  <2>1. DOMAIN barriers = {}
    BY <1>1
  <2>2. Held = {}
    BY <2>1 DEF Held
  <2>3. QED
    BY <1>1, <2>2 DEF Live
<1>3. <<>> \in Seq(FrameRecord) /\ Len(<<>>) = 0
  OBVIOUS
<1>4. LineageInv
  <2>1. \A l : l = <<>> => l \in Seq(FrameRecord) /\ \A i \in 1..Len(l) : l[i].fork <= forks
    <3> HIDE DEF FrameRecord
    <3>1. QED
      BY <1>3
  <2>2. forks \in Nat
    BY <1>1
  <2>3. QED
    BY <1>2, <2>1, <2>2, Zenon DEF LineageInv
<1>5. CorrelationIsSound
  BY <1>2, <1>3 DEF CorrelationIsSound
<1>6. IsFiniteSet(resolved) /\ AnyPassesOnce
  <2>1. \A n \in Nodes : {k \in resolved : k.node = n} = {} /\ visits[n] = 0
    BY <1>1
  <2>2. \A n \in Nodes : Cardinality({k \in resolved : k.node = n}) = 0
    BY <2>1, FS_EmptySet, Zenon
  <2>3. \A n \in Nodes : visits[n] <= Cardinality({k \in resolved : k.node = n})
    <3>1. TAKE n \in Nodes
    <3>2. Cardinality({k \in resolved : k.node = n}) = 0 /\ visits[n] = 0
      BY <2>1, <2>2
    <3>3. QED
      BY <3>2
  <2>4. QED
    BY <1>1, <2>3, FS_EmptySet DEF AnyPassesOnce
<1>7. QED
  BY <1>4, <1>5, <1>6 DEF JoinInv

\* Every step preserves what the joins rely on.
LEMMA JoinStep ==
  ASSUME IInv, JoinInv, [Next]_vars
  PROVE  JoinInv'
<1>1. scenario' = scenario
  BY KindsOfSteps DEF vars, StopStep, VisitStep, LastStep
<1>2. QED
  BY <1>1, LineageStep, CorrelationStep, AnyStep DEF JoinInv

\* However branches fork inside branches, loop and overtake each other, the tokens that
\* meet at a join carry the same frames outside the fork they meet for, and an any-join
\* is passed once for each fork (simulator.go:205-290).
THEOREM JoinsTellForksApart == Spec => []JoinsAreSound
<1>1. Init => JoinInv
  BY JoinInit
<1>2. IInv /\ JoinInv /\ [Next]_vars => JoinInv'
  BY JoinStep
<1>3. JoinInv => JoinsAreSound
  BY DEF JoinInv, JoinsAreSound
<1>4. QED
  BY <1>1, <1>2, <1>3, SimulatorInvariant, PTL DEF Spec

-------------------------------------------------------------------------------
(* The fate of each token.                                                  *)

\* An event that says what became of the token it names.
Fate(e) ==
  /\ e.token # 0
  /\ \/ e.type \in {"node.started", "node.waiting", "node.skipped"}
     \/ e.code \in {"join.uncorrelated", "context.merge_conflict"}

Fates(id) == {i \in 1..Len(events) : events[i].token = id /\ Fate(events[i])}
Waiting(id) == \E t \in queue : t.id = id

AccountInv == NumberInv /\ TokensAccounted

\* TokensAccounted counts the fates of each token.
LEMMA AccountedByFates ==
  ASSUME EventInv
  PROVE  /\ \A id \in 1..tokens : IsFiniteSet(Fates(id)) /\ Cardinality(Fates(id)) \in Nat
         /\ TokensAccounted
              <=> \A id \in 1..tokens :
                    IF Waiting(id) THEN Cardinality(Fates(id)) = 0
                    ELSE \/ Cardinality(Fates(id)) = 1
                         \/ Cardinality(Fates(id)) = 0 /\ Last(events).type = "run.limit_exceeded"
<1>1. Len(events) \in Nat /\ IsFiniteSet(1..Len(events))
  BY FS_Interval DEF EventInv
<1>2. \A id \in 1..tokens : IsFiniteSet(Fates(id)) /\ Cardinality(Fates(id)) \in Nat
  BY <1>1, FS_Subset, FS_CardinalityType DEF Fates
<1>3. \A id \in 1..tokens :
        {i \in 1..Len(events) :
           /\ events[i].token = id
           /\ \/ events[i].type \in {"node.started", "node.waiting", "node.skipped"}
              \/ events[i].code \in {"join.uncorrelated", "context.merge_conflict"}} = Fates(id)
  BY DEF Fates, Fate
<1>4. QED
  BY <1>2, <1>3 DEF TokensAccounted, Waiting

\* TokensAccounted of the next state, in the same terms.
LEMMA AccountedNext ==
  ASSUME \A id \in 1..tokens' :
           IF Waiting(id)' THEN Cardinality(Fates(id)') = 0
           ELSE \/ Cardinality(Fates(id)') = 1
                \/ Cardinality(Fates(id)') = 0 /\ Last(events').type = "run.limit_exceeded"
  PROVE  TokensAccounted'
<1>1. \A id \in 1..tokens' :
        {i \in 1..Len(events') :
           /\ events'[i].token = id
           /\ \/ events'[i].type \in {"node.started", "node.waiting", "node.skipped"}
              \/ events'[i].code \in {"join.uncorrelated", "context.merge_conflict"}} = Fates(id)'
  BY DEF Fates, Fate
<1>2. QED
  BY <1>1 DEF TokensAccounted, Waiting

\* One token of the queue meets its fate: the first new event says so, and the tokens that
\* are queued have numbers of their own.
MeetsFate ==
  \E t \in queue : \E new \in Seq(EventRecord) :
    /\ events' = events \o new /\ Len(new) > 0
    /\ new[1].token = t.id /\ Fate(new[1]) /\ \A i \in 2..Len(new) : ~Fate(new[i])
    /\ tokens' \in Nat /\ tokens <= tokens' /\ \A i \in 1..Len(new) : new[i].token <= tokens'
    /\ queue \ {t} \subseteq queue'
    /\ \A u \in queue' : u \in queue \ {t} \/ u.id \in (tokens + 1)..tokens'
    /\ \A u, v \in queue' : u.id = v.id /\ u.id \in (tokens + 1)..tokens' => u = v
    /\ \A id \in (tokens + 1)..tokens' : Waiting(id)'
    /\ status = "running"

\* No token does: the call returns, and tokens are left only by a limit.
DropsTokens ==
  \E new \in Seq(EventRecord) :
    /\ events' = events \o new /\ Len(new) > 0 /\ \A i \in 1..Len(new) : ~Fate(new[i])
    /\ \A i \in 1..Len(new) : new[i].token <= tokens
    /\ queue' = {} /\ tokens' = tokens /\ status = "running"
    /\ queue = {} \/ new[Len(new)].type = "run.limit_exceeded"

\* Events that settle no fate of a token leave its fates as they are.
LEMMA NoNewFate ==
  ASSUME EventInv, NEW new \in Seq(EventRecord), events' = events \o new, NEW id \in Nat \ {0},
         \A i \in 1..Len(new) : ~(new[i].token = id /\ Fate(new[i]))
  PROVE  Fates(id)' = Fates(id)
<1>1. /\ Len(events) \in Nat /\ Len(new) \in Nat /\ Len(events') = Len(events) + Len(new)
      /\ \A i \in 1..Len(events) : events'[i] = events[i]
      /\ \A i \in 1..Len(new) : events'[Len(events) + i] = new[i]
  BY Appended
<1>2. \A i \in 1..Len(events') : i \in 1..Len(events) \/ ~(events'[i].token = id /\ Fate(events'[i]))
  <2>1. SUFFICES ASSUME NEW i \in 1..Len(events'), i \notin 1..Len(events)
                 PROVE  ~(events'[i].token = id /\ Fate(events'[i]))
    OBVIOUS
  <2>2. i - Len(events) \in 1..Len(new) /\ Len(events) + (i - Len(events)) = i
    BY <1>1, <2>1
  <2>3. events'[i] = new[i - Len(events)]
    BY <1>1, <2>2
  <2>4. QED
    BY <2>2, <2>3
<1>3. \A i \in 1..Len(events) : i \in 1..Len(events')
  BY <1>1
<1>4. Fates(id)' = {i \in 1..Len(events') : events'[i].token = id /\ Fate(events'[i])}
  BY DEF Fates, Fate
<1> HIDE DEF Fate
<1>5. QED
  BY <1>1, <1>2, <1>3, <1>4 DEF Fates

\* The first new event settles the fate of a token that had none.
LEMMA OneNewFate ==
  ASSUME EventInv, NEW new \in Seq(EventRecord), events' = events \o new, Len(new) > 0,
         NEW id \in Nat \ {0}, new[1].token = id, Fate(new[1]), Fates(id) = {},
         \A i \in 2..Len(new) : ~Fate(new[i])
  PROVE  Fates(id)' = {Len(events) + 1}
<1>1. /\ Len(events) \in Nat /\ Len(new) \in Nat /\ Len(events') = Len(events) + Len(new)
      /\ \A i \in 1..Len(events) : events'[i] = events[i]
      /\ \A i \in 1..Len(new) : events'[Len(events) + i] = new[i]
  BY Appended
<1>2. Len(events) + 1 \in 1..Len(events') /\ events'[Len(events) + 1] = new[1]
  BY <1>1
<1>3. \A i \in 1..Len(events') : i # Len(events) + 1 => ~(events'[i].token = id /\ Fate(events'[i]))
  <2>1. SUFFICES ASSUME NEW i \in 1..Len(events'), i # Len(events) + 1
                 PROVE  ~(events'[i].token = id /\ Fate(events'[i]))
    OBVIOUS
  <2>2. CASE i \in 1..Len(events)
    BY <1>1, <2>2 DEF Fates
  <2>3. CASE i \notin 1..Len(events)
    <3>1. i - Len(events) \in 2..Len(new) /\ Len(events) + (i - Len(events)) = i
      BY <1>1, <2>1, <2>3
    <3>2. events'[i] = new[i - Len(events)]
      BY <1>1, <3>1
    <3>3. QED
      BY <3>1, <3>2
  <2>4. QED
    BY <2>2, <2>3
<1>4. Fates(id)' = {i \in 1..Len(events') : events'[i].token = id /\ Fate(events'[i])}
  BY DEF Fates, Fate
<1> HIDE DEF Fate
<1>5. QED
  BY <1>2, <1>3, <1>4

\* Numbers stay unique when new tokens are numbered past the old ones.
LEMMA NumbersKept ==
  ASSUME IInv, NumberInv, MeetsFate \/ DropsTokens
  PROVE  NumberInv'
<1>1. tokens \in Nat /\ EventInv
  BY DEF IInv, TokenInv
<1>2. \A t \in queue : t.id \in 1..tokens
  BY DEF NumberInv
<1>3. ASSUME NEW new \in Seq(EventRecord), events' = events \o new, tokens' \in Nat,
             tokens <= tokens', \A i \in 1..Len(new) : new[i].token <= tokens'
      PROVE  events' # <<>> /\ \A i \in 1..Len(events') : events'[i].token <= tokens'
  <2>1. /\ Len(events) \in Nat /\ Len(new) \in Nat /\ Len(events') = Len(events) + Len(new)
        /\ \A i \in 1..Len(events) : events'[i] = events[i]
        /\ \A i \in 1..Len(new) : events'[Len(events) + i] = new[i]
    BY <1>1, <1>3, Appended
  <2>2. SUFFICES ASSUME NEW i \in 1..Len(events')
                 PROVE  events'[i].token <= tokens'
    <3>1. Len(events) > 0
      BY <1>1 DEF NumberInv, EventInv
    <3>2. events' # <<>>
      BY <2>1, <3>1
    <3>3. QED
      BY <3>2
  <2>3. CASE i \in 1..Len(events)
    <3>1. events[i].token <= tokens /\ events[i].token \in Nat
      <4>1. events[i] \in EventRecord
        BY <1>1, <2>3 DEF EventInv
      <4>2. QED
        BY <4>1, <2>3 DEF NumberInv, EventRecord
    <3>2. QED
      BY <1>1, <1>3, <2>1, <2>3, <3>1
  <2>4. CASE i \notin 1..Len(events)
    <3>1. i - Len(events) \in 1..Len(new) /\ Len(events) + (i - Len(events)) = i
      BY <2>1, <2>4
    <3>2. events'[i] = new[i - Len(events)]
      BY <2>1, <3>1
    <3>3. QED
      BY <1>3, <3>1, <3>2
  <2>5. QED
    BY <2>3, <2>4
<1>4. CASE MeetsFate
  <2>1. PICK t \in queue, new \in Seq(EventRecord) :
          /\ events' = events \o new
          /\ tokens' \in Nat /\ tokens <= tokens' /\ \A i \in 1..Len(new) : new[i].token <= tokens'
          /\ \A u \in queue' : u \in queue \ {t} \/ u.id \in (tokens + 1)..tokens'
          /\ \A u, v \in queue' : u.id = v.id /\ u.id \in (tokens + 1)..tokens' => u = v
    BY <1>4 DEF MeetsFate
  <2>2. \A u \in queue' : u.id \in 1..tokens'
    BY <1>1, <1>2, <2>1
  <2>3. \A u, v \in queue' : u.id = v.id => u = v
    <3>1. SUFFICES ASSUME NEW u \in queue', NEW v \in queue', u.id = v.id
                   PROVE  u = v
      OBVIOUS
    <3>2. CASE u.id \in (tokens + 1)..tokens'
      BY <2>1, <3>1, <3>2
    <3>3. CASE u.id \notin (tokens + 1)..tokens'
      <4>1. u \in queue /\ v \in queue
        BY <2>1, <3>1, <3>3
      <4>2. QED
        BY <3>1, <4>1 DEF NumberInv
    <3>4. QED
      BY <3>2, <3>3
  <2>4. QED
    BY <1>3, <2>1, <2>2, <2>3 DEF NumberInv
<1>5. CASE DropsTokens
  <2>1. PICK new \in Seq(EventRecord) :
          /\ events' = events \o new /\ \A i \in 1..Len(new) : new[i].token <= tokens
          /\ queue' = {} /\ tokens' = tokens
    BY <1>5 DEF DropsTokens
  <2>2. QED
    BY <1>1, <1>3, <2>1 DEF NumberInv
<1>6. QED
  BY <1>4, <1>5

\* A running call has dropped nothing yet: a token that does not wait has met one fate.
LEMMA OneFateEach ==
  ASSUME IInv, AccountInv, status = "running", NEW id \in 1..tokens
  PROVE  IF Waiting(id) THEN Fates(id) = {} ELSE Cardinality(Fates(id)) = 1
<1>1. EventInv
  BY DEF IInv
<1>2. \A i \in 1..Len(events) : events[i].type # "run.limit_exceeded"
  BY <1>1 DEF EventInv, Journal!TerminalTypes
<1>3. CASE Waiting(id)
  <2>1. Cardinality(Fates(id)) = 0 /\ IsFiniteSet(Fates(id))
    BY <1>1, <1>3, AccountedByFates DEF AccountInv
  <2>2. QED
    BY <1>3, <2>1, FS_EmptySet
<1>4. CASE ~Waiting(id)
  <2>1. \/ Cardinality(Fates(id)) = 1
        \/ Cardinality(Fates(id)) = 0 /\ Last(events).type = "run.limit_exceeded"
    BY <1>1, <1>4, AccountedByFates DEF AccountInv
  <2>2. events # <<>> => Last(events).type # "run.limit_exceeded"
    <3>1. events \in Seq(EventRecord)
      BY <1>1 DEF EventInv
    <3>2. events # <<>> => Len(events) \in 1..Len(events)
      BY <3>1
    <3>3. QED
      BY <1>2, <3>2 DEF Last
  <2>3. events # <<>>
    BY DEF AccountInv, NumberInv
  <2>4. QED
    BY <1>4, <2>1, <2>2, <2>3
<1>5. QED
  BY <1>3, <1>4

\* A token that meets its fate does so once, and leaves the queue.
LEMMA FatesKept ==
  ASSUME IInv, AccountInv, MeetsFate, EventInv'
  PROVE  TokensAccounted'
<1>1. PICK t \in queue, new \in Seq(EventRecord) :
        /\ events' = events \o new /\ Len(new) > 0
        /\ new[1].token = t.id /\ Fate(new[1]) /\ \A i \in 2..Len(new) : ~Fate(new[i])
        /\ tokens' \in Nat /\ tokens <= tokens'
        /\ queue \ {t} \subseteq queue'
        /\ \A u \in queue' : u \in queue \ {t} \/ u.id \in (tokens + 1)..tokens'
        /\ \A id \in (tokens + 1)..tokens' : Waiting(id)'
        /\ status = "running"
  BY DEF MeetsFate
<1>2. /\ EventInv /\ tokens \in Nat /\ t.id \in 1..tokens
      /\ \A u \in queue : u.id \in 1..tokens /\ (u.id = t.id => u = t)
      /\ \A i \in 1..Len(events) : events[i].token <= tokens
  BY DEF IInv, TokenInv, AccountInv, NumberInv
<1>3. ASSUME NEW id \in 1..tokens'
      PROVE  IF Waiting(id)' THEN Cardinality(Fates(id)') = 0 ELSE Cardinality(Fates(id)') = 1
  <2>1. CASE id = t.id
    <3>1. Fates(id) = {}
      <4>1. Waiting(id)
        BY <2>1 DEF Waiting
      <4>2. QED
        BY <4>1, <1>1, <1>2, <2>1, OneFateEach
    <3>2. Fates(id)' = {Len(events) + 1}
      <4>1. /\ id \in Nat \ {0} /\ new[1].token = id /\ Fate(new[1]) /\ Fates(id) = {}
            /\ EventInv /\ events' = events \o new /\ Len(new) > 0
            /\ \A i \in 2..Len(new) : ~Fate(new[i])
        BY <1>1, <1>2, <2>1, <3>1
      <4>2. QED
        BY <4>1, OneNewFate
    <3>3. ~Waiting(id)'
      BY <1>1, <1>2, <2>1 DEF Waiting
    <3>4. QED
      BY <3>2, <3>3, FS_Singleton
  <2>2. CASE id # t.id
    <3>1. \A i \in 1..Len(new) : ~(new[i].token = id /\ Fate(new[i]))
      BY <1>1, <2>2
    <3>2. Fates(id)' = Fates(id)
      <4>1. EventInv /\ events' = events \o new /\ id \in Nat \ {0}
        BY <1>1, <1>2, <1>3
      <4>2. QED
        BY <4>1, <3>1, NoNewFate
    <3>3. CASE id \in 1..tokens
      <4>1. Waiting(id)' <=> Waiting(id)
        BY <1>1, <1>2, <2>2, <3>3 DEF Waiting
      <4>2. QED
        BY <1>1, <3>2, <3>3, <4>1, OneFateEach, FS_EmptySet
    <3>4. CASE id \notin 1..tokens
      <4>1. Waiting(id)'
        BY <1>1, <1>2, <1>3, <3>4
      <4>2. Fates(id) = {}
        BY <1>2, <1>3, <3>4 DEF Fates
      <4>3. QED
        BY <3>2, <4>1, <4>2, FS_EmptySet
    <3>5. QED
      BY <3>3, <3>4
  <2>3. QED
    BY <2>1, <2>2
<1>4. QED
  BY <1>3, AccountedNext

\* A call that returns drops its tokens at a limit only, and settles the fate of none.
LEMMA DropsKept ==
  ASSUME IInv, AccountInv, DropsTokens, EventInv'
  PROVE  TokensAccounted'
<1>1. PICK new \in Seq(EventRecord) :
        /\ events' = events \o new /\ Len(new) > 0 /\ \A i \in 1..Len(new) : ~Fate(new[i])
        /\ queue' = {} /\ tokens' = tokens /\ status = "running"
        /\ queue = {} \/ new[Len(new)].type = "run.limit_exceeded"
  BY DEF DropsTokens
<1>2. EventInv /\ tokens \in Nat
  BY DEF IInv, TokenInv
<1>3. Last(events') = new[Len(new)]
  <2>1. /\ events' \in Seq(EventRecord) /\ Len(events) \in Nat /\ Len(new) \in Nat
        /\ Len(events') = Len(events) + Len(new) /\ events'[Len(events) + Len(new)] = new[Len(new)]
    BY <1>1, <1>2, Appended
  <2>2. QED
    BY <2>1 DEF Last
<1>4. ASSUME NEW id \in 1..tokens'
      PROVE  /\ ~Waiting(id)'
             /\ \/ Cardinality(Fates(id)') = 1
                \/ Cardinality(Fates(id)') = 0 /\ Last(events').type = "run.limit_exceeded"
  <2>1. ~Waiting(id)'
    BY <1>1 DEF Waiting
  <2>2. Fates(id)' = Fates(id)
    BY <1>1, <1>2, <1>4, NoNewFate, SMTT(30)
  <2>3. id \in 1..tokens
    BY <1>1, <1>4
  <2>4. CASE Waiting(id)
    <3>1. queue # {}
      BY <2>4 DEF Waiting
    <3>2. Cardinality(Fates(id)') = 0
      BY <2>2, <2>3, <2>4, <1>1, OneFateEach, FS_EmptySet
    <3>3. QED
      BY <1>1, <1>3, <2>1, <3>1, <3>2
  <2>5. CASE ~Waiting(id)
    BY <1>1, <2>1, <2>2, <2>3, <2>5, OneFateEach
  <2>6. QED
    BY <2>4, <2>5
<1>5. QED
  BY <1>4, AccountedNext

\* A token that stops at a join says why, if it is not the one that completes it.
LEMMA StopMeetsFate ==
  ASSUME IInv, NumberInv, NEW t \in queue, Take(t), NEW e \in EventRecord, e.token = t.id,
         Emit(<<e>>), e.token # 0 => Fate(e)
  PROVE  MeetsFate
<1> DEFINE new == <<e>>
<1>1. new \in Seq(EventRecord) /\ Len(new) = 1 /\ new[1] = e /\ events' = events \o new
  BY DEF Emit
<1>2. tokens \in Nat /\ t.id \in 1..tokens
  BY DEF IInv, TokenInv, NumberInv
<1>3. queue' = queue \ {t} /\ status = "running" /\ tokens' = tokens
  BY DEF Take, playVars
<1>4. Fate(e)
  BY <1>2
<1> HIDE DEF new
<1>5. /\ new[1].token = t.id /\ Fate(new[1]) /\ \A i \in 2..Len(new) : ~Fate(new[i])
      /\ \A i \in 1..Len(new) : new[i].token <= tokens'
  BY <1>1, <1>2, <1>3, <1>4
<1>6. (tokens + 1)..tokens' = {}
  BY <1>2, <1>3
<1>7. /\ queue \ {t} \subseteq queue' /\ \A u \in queue' : u \in queue \ {t}
      /\ \A u, v \in queue' : u.id = v.id /\ u.id \in (tokens + 1)..tokens' => u = v
      /\ \A id \in (tokens + 1)..tokens' : Waiting(id)'
  BY <1>3, <1>6
<1>8. tokens' \in Nat /\ tokens <= tokens' /\ Len(new) > 0
  BY <1>1, <1>2, <1>3
<1> HIDE DEF Fate, Waiting
<1>9. QED
  BY <1>1, <1>3, <1>5, <1>7, <1>8 DEF MeetsFate

\* The five ways in which a token stops at a join.
LEMMA StopsMeetFate ==
  ASSUME IInv, NumberInv,
         Uncorrelated \/ AnyAlreadyResolved \/ DuplicateBranch \/ AwaitSiblings \/ MergeConflict
  PROVE  MeetsFate
<1>1. ASSUME NEW t, Take(t)
      PROVE  t.node \in Nodes /\ t.id \in Nat /\ t.time \in Nat /\ Arrival(t).time \in Nat
  BY <1>1, ArrivalTime DEF Take, First, IInv, TokenInv, IsToken
<1>2. ASSUME NEW t \in queue, Take(t), NEW type, NEW code \in Codes, NEW time \in Nat,
             Emit(<<Event(type, time, t, code)>>),
             \/ type \in {"node.waiting", "node.skipped"}
             \/ type = "node.failed" /\ code \in {"join.uncorrelated", "context.merge_conflict"}
      PROVE  MeetsFate
  <2> DEFINE e == Event(type, time, t, code)
  <2>1. type \in Journal!PlannedTypes
    BY <1>2, PassingTypes
  <2>2. e \in EventRecord /\ e.token = t.id /\ e.type = type /\ e.code = code
    BY <1>1, <1>2, <2>1 DEF Event, EventRecord
  <2> HIDE DEF e
  <2>3. e.token # 0 => Fate(e)
    BY <1>2, <2>2 DEF Fate
  <2>4. Emit(<<e>>)
    BY <1>2 DEF e
  <2>5. QED
    BY <1>2, <2>2, <2>3, <2>4, StopMeetsFate
<1>3. {"", "join.uncorrelated", "join.any_already_resolved", "join.all_duplicate_branch",
       "context.merge_conflict"} \subseteq Codes
  BY DEF Codes
<1>4. CASE Uncorrelated
  <2>1. PICK t \in queue : Take(t) /\ Emit(<<Event("node.failed", t.time, t, "join.uncorrelated")>>)
    BY <1>4 DEF Uncorrelated
  <2>2. QED
    BY <1>1, <1>2, <1>3, <2>1
<1>5. CASE AnyAlreadyResolved
  <2>1. PICK t \in queue :
          Take(t) /\ Emit(<<Event("node.skipped", t.time, t, "join.any_already_resolved")>>)
    BY <1>5 DEF AnyAlreadyResolved
  <2>2. QED
    BY <1>1, <1>2, <1>3, <2>1
<1>6. CASE DuplicateBranch
  <2>1. PICK t \in queue :
          Take(t) /\ Emit(<<Event("node.skipped", t.time, t, "join.all_duplicate_branch")>>)
    BY <1>6 DEF DuplicateBranch
  <2>2. QED
    BY <1>1, <1>2, <1>3, <2>1
<1>7. CASE AwaitSiblings
  <2>1. PICK t \in queue : Take(t) /\ Emit(<<Event("node.waiting", t.time, t, "")>>)
    BY <1>7 DEF AwaitSiblings
  <2>2. QED
    BY <1>1, <1>2, <1>3, <2>1
<1>8. CASE MergeConflict
  <2>1. PICK t \in queue :
          Take(t) /\ Emit(<<Event("node.failed", Arrival(t).time, t, "context.merge_conflict")>>)
    BY <1>8 DEF MergeConflict
  <2>2. QED
    BY <1>1, <1>2, <1>3, <2>1
<1>9. QED
  BY <1>4, <1>5, <1>6, <1>7, <1>8

\* The events of a visit, and the codes of a visit that fails, settle nothing more.
LEMMA VisitCodes ==
  ASSUME NEW t
  PROVE  /\ ~Fate(Completed(t)) /\ (t.id # 0 => Fate(Started(t)))
         /\ Started(t).token = t.id /\ Completed(t).token = t.id
         /\ \A code, time : /\ Event("node.failed", time, t, code).token = t.id
                            /\ code \notin {"join.uncorrelated", "context.merge_conflict"} =>
                                 ~Fate(Event("node.failed", time, t, code))
         /\ ~Fate(Event("run.limit_exceeded", t.time, t, "run.max_steps"))
         /\ ~Fate(Event("run.limit_exceeded", t.time, t, "run.max_visits_per_node"))
         /\ \A type \in {"edge.traversed", "node.queued"} : \A time :
              Event(type, time, t, "").token = t.id /\ ~Fate(Event(type, time, t, ""))
BY DEF Fate, Started, Completed, Event

\* A visit that queues nothing settles the fate of the token it started with.
LEMMA VisitMeetsFate ==
  ASSUME IInv, NumberInv, NEW t \in queue, NEW a, Visit(t, a), queue' = queue \ {t},
         tokens' = tokens, NEW new \in Seq(EventRecord), Emit(new), Len(new) > 0,
         new[1] = Started(a.token), \A i \in 2..Len(new) : ~Fate(new[i]),
         \A i \in 2..Len(new) : new[i].token = a.token.id
  PROVE  MeetsFate
<1>1. tokens \in Nat /\ t.id \in 1..tokens
  BY DEF IInv, TokenInv, NumberInv
<1>2. a.token.id = t.id /\ status = "running"
  BY VisitFrame DEF IInv
<1>3. Started(a.token).token = t.id /\ Fate(Started(a.token))
  <2>1. /\ Started(a.token).token = a.token.id
        /\ a.token.id # 0 => Fate(Started(a.token))
    BY VisitCodes
  <2>2. a.token.id # 0
    BY <1>1, <1>2
  <2>3. QED
    BY <1>2, <2>1, <2>2
<1>4. /\ new[1].token = t.id /\ Fate(new[1])
      /\ \A i \in 1..Len(new) : new[i].token <= tokens'
  <2>1. new[1].token = t.id /\ Fate(new[1])
    BY <1>3
  <2>2. \A i \in 1..Len(new) : i = 1 \/ i \in 2..Len(new)
    OBVIOUS
  <2>3. t.id <= tokens'
    BY <1>1
  <2>4. QED
    BY <1>2, <2>1, <2>2, <2>3
<1>5. (tokens + 1)..tokens' = {}
  BY <1>1
<1>6. /\ queue \ {t} \subseteq queue' /\ \A u \in queue' : u \in queue \ {t}
      /\ \A u, v \in queue' : u.id = v.id /\ u.id \in (tokens + 1)..tokens' => u = v
      /\ \A id \in (tokens + 1)..tokens' : Waiting(id)'
  BY <1>5
<1>7. tokens' \in Nat /\ tokens <= tokens' /\ events' = events \o new
  BY <1>1 DEF Emit
<1> HIDE DEF Fate, Waiting
<1>8. QED
  BY <1>2, <1>4, <1>6, <1>7 DEF MeetsFate

\* The three visits that queue nothing.
LEMMA VisitsMeetFate ==
  ASSUME IInv, NumberInv, FailVisit \/ ReachEnd \/ InvalidChoice
  PROVE  MeetsFate
<1>1. CallInv /\ TokenInv /\ BarrierInv
  BY DEF IInv
<1>2. CASE FailVisit
  <2>1. PICK t, a : /\ t \in queue /\ Visit(t, a) /\ queue' = queue \ {t} /\ tokens' = tokens
                    /\ Failure(a.token) # ""
                    /\ Emit(<<Started(a.token),
                              Event("node.failed", a.token.time, a.token, Failure(a.token))>>)
    BY <1>2 DEF FailVisit
  <2>2. Failure(a.token) \in Codes \ {"join.uncorrelated", "context.merge_conflict"}
    BY DEF Failure, Codes
  <2> DEFINE failed == Event("node.failed", a.token.time, a.token, Failure(a.token))
             new == <<Started(a.token), failed>>
  <2>3. a.token.time \in Nat /\ Started(a.token) \in EventRecord /\ failed \in EventRecord
    BY <1>1, <2>1, <2>2, VisitFrame, VisitEvents
  <2>4. failed.token = a.token.id /\ ~Fate(failed)
    BY <2>2, VisitCodes
  <2> HIDE DEF failed, Fate
  <2>5. /\ new \in Seq(EventRecord) /\ Len(new) > 0 /\ new[1] = Started(a.token)
        /\ \A i \in 2..Len(new) : ~Fate(new[i]) /\ new[i].token = a.token.id
    BY <2>3, <2>4
  <2>6. Emit(new)
    BY <2>1 DEF failed
  <2> HIDE DEF new
  <2>7. QED
    BY <2>1, <2>5, <2>6, VisitMeetsFate
<1>3. CASE ReachEnd
  <2>1. PICK t, a : /\ t \in queue /\ Visit(t, a) /\ queue' = queue \ {t} /\ tokens' = tokens
                    /\ Emit(<<Started(a.token), Completed(a.token)>>)
    BY <1>3 DEF ReachEnd
  <2> DEFINE new == <<Started(a.token), Completed(a.token)>>
  <2>2. Started(a.token) \in EventRecord /\ Completed(a.token) \in EventRecord
    BY <1>1, <2>1, VisitEvents
  <2>3. Completed(a.token).token = a.token.id /\ ~Fate(Completed(a.token))
    BY VisitCodes
  <2> HIDE DEF Fate
  <2>4. /\ new \in Seq(EventRecord) /\ Len(new) > 0 /\ new[1] = Started(a.token)
        /\ \A i \in 2..Len(new) : ~Fate(new[i]) /\ new[i].token = a.token.id
    BY <2>2, <2>3
  <2>5. Emit(new)
    BY <2>1
  <2> HIDE DEF new
  <2>6. QED
    BY <2>1, <2>4, <2>5, VisitMeetsFate
<1>4. CASE InvalidChoice
  <2>1. PICK t, a : /\ t \in queue /\ Visit(t, a) /\ queue' = queue \ {t} /\ tokens' = tokens
                    /\ Emit(<<Started(a.token), Completed(a.token),
                              Event("node.failed", Completed(a.token).time, a.token,
                                    "condition.invalid")>>)
    BY <1>4 DEF InvalidChoice
  <2> DEFINE failed == Event("node.failed", Completed(a.token).time, a.token, "condition.invalid")
             new == <<Started(a.token), Completed(a.token), failed>>
  <2>2. /\ Started(a.token) \in EventRecord /\ Completed(a.token) \in EventRecord
        /\ failed \in EventRecord
    BY <1>1, <2>1, VisitEvents DEF Codes
  <2>3. /\ Completed(a.token).token = a.token.id /\ ~Fate(Completed(a.token))
        /\ failed.token = a.token.id /\ ~Fate(failed)
    BY VisitCodes
  <2> HIDE DEF failed, Fate
  <2>4. /\ new \in Seq(EventRecord) /\ Len(new) > 0 /\ new[1] = Started(a.token)
        /\ \A i \in 2..Len(new) : ~Fate(new[i]) /\ new[i].token = a.token.id
    BY <2>2, <2>3
  <2>5. Emit(new)
    BY <2>1 DEF failed
  <2> HIDE DEF new
  <2>6. QED
    BY <2>1, <2>4, <2>5, VisitMeetsFate
<1>5. QED
  BY <1>2, <1>3, <1>4

\* A fork numbers its children past every token so far, and one number each.
LEMMA TraverseMeetsFate ==
  ASSUME IInv, NumberInv, Traverse
  PROVE  MeetsFate
<1>1. CallInv /\ TokenInv /\ BarrierInv
  BY DEF IInv
<1>2. PICK t, a : \E order \in InOrder(Choice(a.token).edges) :
        /\ t \in queue /\ Visit(t, a) /\ tokens' = tokens + Len(order)
        /\ queue' = (queue \ {t}) \cup {Child(a.token, order, i) : i \in 1..Len(order)}
        /\ Emit(<<Started(a.token), Completed(a.token)>> \o Crossings(a.token, order))
  BY DEF Traverse
<1>3. PICK order \in InOrder(Choice(a.token).edges) :
        /\ t \in queue /\ Visit(t, a) /\ tokens' = tokens + Len(order)
        /\ queue' = (queue \ {t}) \cup {Child(a.token, order, i) : i \in 1..Len(order)}
        /\ Emit(<<Started(a.token), Completed(a.token)>> \o Crossings(a.token, order))
  BY <1>2
<1>4. /\ tokens \in Nat /\ t.id \in 1..tokens /\ Len(order) \in Nat /\ a.token.id = t.id
      /\ status = "running" /\ \A i \in 1..Len(order) : Child(a.token, order, i).id = tokens + i
  BY <1>1, <1>3, ChildrenOfVisit, VisitFrame DEF IInv, TokenInv, NumberInv, Child
<1> DEFINE crossed == Crossings(a.token, order)
           visited == <<Started(a.token), Completed(a.token)>>
           new == visited \o crossed
<1>5. /\ crossed \in Seq(EventRecord) /\ Len(crossed) = 2 * Len(order)
      /\ \A i \in 1..Len(crossed) : ~Fate(crossed[i]) /\ crossed[i].token <= tokens'
  <2>1. crossed \in Seq(EventRecord) /\ Len(crossed) = 2 * Len(order)
    BY <1>1, <1>3, CrossingEvents
  <2>2. ASSUME NEW i \in 1..Len(crossed)
        PROVE  ~Fate(crossed[i]) /\ crossed[i].token <= tokens'
    <3>1. i \in 1..2 * Len(order)
      BY <2>1, <2>2
    <3>2. CASE i % 2 = 1
      <4>1. crossed[i] = Event("edge.traversed", Completed(a.token).time, a.token, "")
        BY <3>1, <3>2 DEF Crossings
      <4> HIDE DEF crossed
      <4>2. /\ Event("edge.traversed", Completed(a.token).time, a.token, "").token = a.token.id
            /\ ~Fate(Event("edge.traversed", Completed(a.token).time, a.token, ""))
        BY VisitCodes
      <4>3. crossed[i].token = a.token.id /\ ~Fate(crossed[i])
        BY <4>1, <4>2
      <4>4. a.token.id <= tokens'
        BY <1>3, <1>4
      <4>5. QED
        BY <4>3, <4>4
    <3>3. CASE i % 2 # 1
      <4>1. crossed[i] = Event("node.queued", Completed(a.token).time, Child(a.token, order, i \div 2), "")
        BY <3>1, <3>3 DEF Crossings
      <4>2. i \div 2 \in 1..Len(order)
        BY <1>4, <3>1, <3>3
      <4> HIDE DEF crossed
      <4>3. crossed[i].token = Child(a.token, order, i \div 2).id /\ ~Fate(crossed[i])
        BY <4>1, VisitCodes
      <4>4. crossed[i].token = tokens + (i \div 2)
        BY <1>4, <4>2, <4>3
      <4>5. QED
        BY <1>3, <1>4, <4>2, <4>3, <4>4
    <3>4. QED
      BY <3>2, <3>3
  <2>3. QED
    BY <2>1, <2>2
<1>6. /\ visited \in Seq(EventRecord) /\ Len(visited) = 2 /\ visited[1] = Started(a.token)
      /\ visited[2] = Completed(a.token)
  BY <1>1, <1>3, VisitEvents
<1>7. /\ Started(a.token).token = t.id /\ Fate(Started(a.token))
      /\ ~Fate(Completed(a.token)) /\ Completed(a.token).token = t.id
  <2>1. /\ Started(a.token).token = a.token.id /\ Completed(a.token).token = a.token.id
        /\ a.token.id # 0 => Fate(Started(a.token))
        /\ ~Fate(Completed(a.token))
    BY VisitCodes
  <2>2. a.token.id # 0
    BY <1>4
  <2>3. QED
    BY <1>4, <2>1, <2>2
<1>8. events' = events \o new
  BY <1>3 DEF Emit
<1> HIDE DEF crossed, visited, Fate, Waiting
<1>9. /\ new \in Seq(EventRecord) /\ Len(new) > 0 /\ new[1] = Started(a.token)
      /\ \A i \in 2..Len(new) : ~Fate(new[i]) /\ new[i].token <= tokens'
  <2>1. /\ new \in Seq(EventRecord) /\ Len(new) = Len(visited) + Len(crossed)
        /\ \A i \in 1..Len(visited) + Len(crossed) :
             new[i] = IF i <= Len(visited) THEN visited[i] ELSE crossed[i - Len(visited)]
    BY <1>5, <1>6, ConcatProperties, Zenon
  <2>2. /\ new \in Seq(EventRecord) /\ Len(new) = 2 + Len(crossed)
        /\ \A i \in 1..Len(new) : new[i] = IF i <= 2 THEN visited[i] ELSE crossed[i - 2]
    <3> HIDE DEF new
    <3>1. QED
      BY <1>6, <2>1
  <2> HIDE DEF new
  <2>3. Len(crossed) \in Nat
    BY <1>5
  <2>4. ASSUME NEW i \in 2..Len(new)
        PROVE  ~Fate(new[i]) /\ new[i].token <= tokens'
    <3>1. CASE i = 2
      <4>1. new[i] = Completed(a.token)
        BY <1>6, <2>2, <3>1
      <4>2. t.id <= tokens'
        BY <1>3, <1>4
      <4>3. QED
        BY <1>7, <4>1, <4>2
    <3>2. CASE i # 2
      <4>1. i - 2 \in 1..Len(crossed) /\ new[i] = crossed[i - 2]
        BY <3>2, <2>2, <2>3
      <4>2. QED
        BY <4>1, <1>5
    <3>3. QED
      BY <3>1, <3>2
  <2>5. QED
    BY <1>6, <2>2, <2>3, <2>4
<1> HIDE DEF new
<1>10. /\ tokens' \in Nat /\ tokens <= tokens' /\ queue \ {t} \subseteq queue'
       /\ \A u \in queue' : u \in queue \ {t} \/ \E i \in 1..Len(order) : u = Child(a.token, order, i)
       /\ \A i \in 1..Len(order) : Child(a.token, order, i) \in queue'
  BY <1>3, <1>4
<1>11. \A u \in queue' : u \in queue \ {t} \/ u.id \in (tokens + 1)..tokens'
  BY <1>3, <1>4, <1>10
<1>12. ASSUME NEW u \in queue', NEW v \in queue', u.id = v.id, u.id \in (tokens + 1)..tokens'
       PROVE  u = v
  <2>1. \A w \in queue : w.id \in 1..tokens
    BY DEF NumberInv
  <2>2. u \notin queue /\ v \notin queue
    BY <1>4, <1>12, <2>1
  <2>3. PICK i \in 1..Len(order) : u = Child(a.token, order, i)
    BY <1>10, <2>2
  <2>4. PICK j \in 1..Len(order) : v = Child(a.token, order, j)
    BY <1>10, <2>2
  <2>5. u.id = tokens + i /\ v.id = tokens + j
    BY <1>4, <2>3, <2>4
  <2>6. i = j
    <3>1. tokens + i = tokens + j
      BY <1>12, <2>5
    <3>2. i \in Nat /\ j \in Nat /\ tokens \in Nat
      BY <1>4
    <3>3. QED
      BY <3>1, <3>2
  <2>7. QED
    BY <2>3, <2>4, <2>6
<1>13. ASSUME NEW id \in (tokens + 1)..tokens'
       PROVE  Waiting(id)'
  <2>1. id - tokens \in 1..Len(order) /\ tokens + (id - tokens) = id
    BY <1>3, <1>4
  <2>2. Child(a.token, order, id - tokens) \in queue' /\ Child(a.token, order, id - tokens).id = id
    BY <1>4, <1>10, <2>1
  <2>3. QED
    BY <2>2 DEF Waiting
<1>14. \A i \in 1..Len(new) : new[i].token <= tokens'
  <2>1. \A i \in 1..Len(new) : i = 1 \/ i \in 2..Len(new)
    BY <1>9
  <2>2. t.id <= tokens'
    BY <1>3, <1>4
  <2>3. QED
    BY <1>7, <1>9, <2>1, <2>2
<1>15. new[1].token = t.id /\ Fate(new[1])
  BY <1>7, <1>9
<1>16. t \in queue
  BY <1>3
<1>17. QED
  BY <1>4, <1>8, <1>9, <1>10, <1>11, <1>12, <1>13, <1>14, <1>15, <1>16 DEF MeetsFate

\* A limit drops what waits, and says so last.
LEMMA ExceedLimitDrops ==
  ASSUME IInv, NumberInv, ExceedLimit
  PROVE  DropsTokens
<1>1. PICK t, a :
        /\ t \in queue /\ Pass(t, a) /\ queue' = {} /\ UNCHANGED playVars
        /\ runCode' = IF steps < scenario.maxSteps THEN "run.max_visits_per_node" ELSE "run.max_steps"
        /\ Emit(<<Event("run.limit_exceeded", a.token.time, a.token, runCode')>>)
  BY DEF ExceedLimit
<1>2. runCode' \in {"run.max_visits_per_node", "run.max_steps"} /\ runCode' \in Codes
  BY <1>1 DEF Codes
<1>3. /\ a.token.node \in Nodes /\ a.token.id = t.id /\ t.id \in Nat /\ a.token.time \in Nat
      /\ tokens' = tokens /\ t.id <= tokens /\ status = "running"
  BY <1>1, ActivationFacts DEF Pass, First, IInv, TokenInv, IsToken, NumberInv, playVars
<1> DEFINE e == Event("run.limit_exceeded", a.token.time, a.token, runCode')
           new == <<e>>
<1>4. /\ e \in EventRecord /\ e.type = "run.limit_exceeded" /\ e.token <= tokens
      /\ e.code \notin {"join.uncorrelated", "context.merge_conflict"}
  BY <1>2, <1>3, PassingTypes DEF Event, EventRecord
<1>5. events' = events \o new
  BY <1>1 DEF Emit
<1> HIDE DEF e
<1>6. ~Fate(e)
  BY <1>4 DEF Fate
<1>7. /\ new \in Seq(EventRecord) /\ Len(new) > 0 /\ \A i \in 1..Len(new) : ~Fate(new[i])
      /\ \A i \in 1..Len(new) : new[i].token <= tokens
      /\ new[Len(new)].type = "run.limit_exceeded"
  BY <1>4, <1>6
<1> HIDE DEF new, Fate
<1>8. QED
  BY <1>1, <1>3, <1>5, <1>7 DEF DropsTokens

\* The end of the call names no token, and none waits.
LEMMA FinishDrops ==
  ASSUME IInv, NumberInv, Finish
  PROVE  DropsTokens
<1> DEFINE verdict(last) ==
             [type |-> IF CodeAtEnd = "" THEN "run.completed" ELSE "run.failed",
              time |-> last, node |-> scenario.trigger, token |-> 0, code |-> CodeAtEnd]
           stuck(order) == [i \in 1..Len(order) |-> Deadlock(order[i])]
<1>1. PICK last \in Times, order \in BarrierOrders :
        /\ status = "running" /\ queue = {} /\ tokens' = tokens /\ queue' = queue
        /\ Emit(stuck(order) \o <<verdict(last)>>)
  BY DEF Finish, playVars
<1>2. CodeAtEnd \in Codes /\ tokens \in Nat
  BY DEF CodeAtEnd, IInv, CallInv, TokenInv, Codes
<1>3. last \in Nat
  <2>1. PICK i \in 1..Len(events) : last = events[i].time
    BY <1>1 DEF Times
  <2>2. events[i] \in EventRecord
    BY DEF IInv, EventInv
  <2>3. QED
    BY <2>1, <2>2 DEF EventRecord
<1>4. verdict(last) \in EventRecord /\ verdict(last).token = 0
  BY <1>2, <1>3, ScenarioFacts, PassingTypes DEF IInv, EventRecord
<1>5. order \in Seq(DOMAIN barriers)
  BY <1>1, ListedInOrder DEF BarrierOrders, IInv, BarrierInv
<1>6. ASSUME NEW k \in DOMAIN barriers
      PROVE  Deadlock(k) \in EventRecord /\ Deadlock(k).token = 0
  <2>1. k.node \in Nodes /\ barriers[k].time \in Nat
    BY DEF IInv, BarrierInv
  <2>2. "run.deadlock" \in Codes
    BY DEF Codes
  <2>3. QED
    BY <2>1, <2>2, PassingTypes DEF Deadlock, EventRecord
<1>7. /\ stuck(order) \in Seq(EventRecord)
      /\ \A i \in 1..Len(stuck(order)) : stuck(order)[i].token = 0
  <2>1. Len(order) \in Nat /\ \A i \in 1..Len(order) : order[i] \in DOMAIN barriers
    BY <1>5
  <2>2. \A i \in 1..Len(order) : Deadlock(order[i]) \in EventRecord /\ Deadlock(order[i]).token = 0
    BY <2>1, <1>6
  <2>3. QED
    BY <2>1, <2>2
<1> HIDE DEF verdict
<1> DEFINE waiting == stuck(order)
           closing == <<verdict(last)>>
           new == waiting \o closing
<1>8. closing \in Seq(EventRecord) /\ Len(closing) = 1 /\ closing[1].token = 0
  BY <1>4
<1>9. events' = events \o new
  BY <1>1 DEF Emit
<1>10. waiting \in Seq(EventRecord) /\ \A i \in 1..Len(waiting) : waiting[i].token = 0
  BY <1>7
<1> HIDE DEF waiting, closing
<1>11. /\ new \in Seq(EventRecord) /\ Len(new) = Len(waiting) + Len(closing)
       /\ \A i \in 1..Len(waiting) + Len(closing) :
            new[i] = IF i <= Len(waiting) THEN waiting[i] ELSE closing[i - Len(waiting)]
  BY <1>8, <1>10, ConcatProperties, Zenon
<1> HIDE DEF new
<1>12. Len(waiting) \in Nat /\ Len(new) > 0
  BY <1>8, <1>10, <1>11
<1>13. \A i \in 1..Len(new) : new[i].token = 0
  BY <1>8, <1>10, <1>11, <1>12
<1>14. \A i \in 1..Len(new) : ~Fate(new[i]) /\ new[i].token <= tokens
  BY <1>2, <1>13 DEF Fate
<1> HIDE DEF Fate
<1>15. QED
  BY <1>1, <1>9, <1>11, <1>12, <1>14 DEF DropsTokens

\* A call starts with one token, which waits.
LEMMA AccountInit ==
  ASSUME Init
  PROVE  AccountInv
<1> DEFINE start  == [id |-> 1, node |-> scenario.trigger, edge |-> 0,
                      context |-> WithVariableDefaults(scenario.variables, scenario.input),
                      writes |-> Absent, lineage |-> <<>>, time |-> 0]
           begun  == [type |-> "run.started", time |-> 0, node |-> scenario.trigger, token |-> 0, code |-> ""]
           queued == [type |-> "node.queued", time |-> 0, node |-> scenario.trigger, token |-> 1, code |-> ""]
<1>1. queue = {start} /\ tokens = 1 /\ events = <<begun, queued>>
  BY Zenon DEF Init
<1>2. start.id = 1 /\ begun.token = 0 /\ queued.token = 1 /\ ~Fate(begun) /\ ~Fate(queued)
  BY DEF Fate
<1> HIDE DEF start, begun, queued, Fate
<1>3. events # <<>> /\ Len(events) = 2 /\ events[1] = begun /\ events[2] = queued
  BY <1>1
<1>4. \A i \in 1..Len(events) : ~Fate(events[i]) /\ events[i].token <= tokens
  <2>1. \A i \in 1..Len(events) : i = 1 \/ i = 2
    BY <1>3
  <2>2. QED
    BY <1>1, <1>2, <1>3, <2>1
<1>5. NumberInv
  <2>1. \A t \in queue : t = start
    BY <1>1
  <2>2. QED
    BY <1>1, <1>2, <1>3, <1>4, <2>1 DEF NumberInv
<1>6. TokensAccounted
  <2>1. \A id \in 1..tokens : Waiting(id) /\ Fates(id) = {}
    BY <1>1, <1>2, <1>4 DEF Waiting, Fates
  <2>2. EventInv
    BY InitEstablishes DEF IInv
  <2>3. QED
    BY <2>1, <2>2, AccountedByFates, FS_EmptySet
<1>7. QED
  BY <1>5, <1>6 DEF AccountInv

\* Every step keeps the account of the tokens.
LEMMA AccountStep ==
  ASSUME IInv, AccountInv, [Next]_vars
  PROVE  AccountInv'
<1>1. NumberInv /\ EventInv'
  BY StepPreserves DEF AccountInv, IInv
<1>2. CASE UNCHANGED vars
  BY <1>2 DEF vars, playVars, AccountInv, NumberInv, TokensAccounted
<1>3. CASE Next
  <2>1. MeetsFate \/ DropsTokens
    BY <1>1, <1>3, StopsMeetFate, VisitsMeetFate, TraverseMeetsFate, ExceedLimitDrops, FinishDrops
       DEF Next
  <2>2. QED
    BY <1>1, <2>1, NumbersKept, FatesKept, DropsKept DEF AccountInv
<1>4. QED
  BY <1>2, <1>3

\* No token is lost, played twice, or both held and played, however branches fork and join:
\* each one that was numbered still waits or met exactly one fate, and only a limit drops the
\* tokens that remain (simulator.go:187-323).
THEOREM TokensMeetOneFate == Spec => []TokensAccounted
<1>1. Init => AccountInv
  BY AccountInit
<1>2. IInv /\ AccountInv /\ [Next]_vars => AccountInv'
  BY AccountStep
<1>3. AccountInv => TokensAccounted
  BY DEF AccountInv
<1>4. QED
  BY <1>1, <1>2, <1>3, SimulatorInvariant, PTL DEF Spec

-------------------------------------------------------------------------------
(* The Time Machine: the frames of a run, one at a time.                    *)

VisitStates == {"queued", "running", "waiting", "completed", "failed", "skipped"}
VisitRecord == [node : Nodes, token : Nat, visit : Nat, state : VisitStates, lastSequence : Nat]
Replays ==
  [applied : Nat, runStatus : {"created", "running", "paused", "completed", "failed", "cancelled"},
   nodeVisits : Seq(VisitRecord), open : SUBSET Nat, crossed : Nat]

\* What is rebuilt is typed, and the visits that are open are those that have not ended.
IsReplay(r) ==
  /\ r \in Replays
  /\ r.open = {i \in 1..Len(r.nodeVisits) : ~VisitEnds(r.nodeVisits[i].state)}

\* The visits that are shown in a state, as the tokens that make them.
VisitsIn(r, state) == {<<v.node, v.token>> : v \in {u \in Range(r.nodeVisits) : u.state = state}}

\* A replay shows the tokens of q as queued, those of p as running and those of h as waiting.
\* The tokens are numbered to n, and only those of b have a second visit.
Tracks(r, q, p, h, n, b) ==
  /\ IsReplay(r) /\ n \in Nat
  /\ VisitsIn(r, "queued") = q /\ VisitsIn(r, "running") = p /\ h \subseteq VisitsIn(r, "waiting")
  /\ \A i \in 1..Len(r.nodeVisits) :
       LET v == r.nodeVisits[i] IN v.token <= n /\ (v.token = 0 => VisitEnds(v.state))
  /\ \A i, j \in 1..Len(r.nodeVisits) :
       LET v == r.nodeVisits[i]  w == r.nodeVisits[j]
       IN  i # j /\ v.token = w.token /\ v.token # 0 =>
             v.node = w.node /\ VisitEnds(v.state) /\ VisitEnds(w.state) /\ v.token \in b

\* A frame whose node moves one visit.
Moved(r, s, i, frame) ==
  /\ IsReplay(s) /\ s.runStatus = r.runStatus /\ Len(s.nodeVisits) = Len(r.nodeVisits)
  /\ s.nodeVisits[i].node = frame.node /\ s.nodeVisits[i].token = frame.token
  /\ s.nodeVisits[i].state = NodeStateFromEvent(frame.type)
  /\ \A j \in 1..Len(r.nodeVisits) : j # i => s.nodeVisits[j] = r.nodeVisits[j]

\* A frame that opens a visit.
Added(r, s, frame) ==
  /\ IsReplay(s) /\ s.runStatus = r.runStatus /\ Len(s.nodeVisits) = Len(r.nodeVisits) + 1
  /\ s.nodeVisits[Len(s.nodeVisits)].node = frame.node /\ s.nodeVisits[Len(s.nodeVisits)].token = frame.token
  /\ s.nodeVisits[Len(s.nodeVisits)].state = NodeStateFromEvent(frame.type)
  /\ \A j \in 1..Len(r.nodeVisits) : s.nodeVisits[j] = r.nodeVisits[j]

\* The visits of a replay are typed.
LEMMA VisitsTyped ==
  ASSUME NEW r, IsReplay(r)
  PROVE  /\ r \in Replays /\ r.nodeVisits \in Seq(VisitRecord) /\ Len(r.nodeVisits) \in Nat /\ r.applied \in Nat
         /\ \A i \in 1..Len(r.nodeVisits) : r.nodeVisits[i] \in VisitRecord /\ r.nodeVisits[i].token \in Nat
<1>1. r \in Replays
  BY DEF IsReplay
<1>2. r.nodeVisits \in Seq(VisitRecord) /\ r.applied \in Nat
  BY <1>1 DEF Replays
<1>3. \A i \in 1..Len(r.nodeVisits) : r.nodeVisits[i] \in VisitRecord
  BY <1>2, ElementOfSeq
<1>4. \A v \in VisitRecord : v.token \in Nat
  BY DEF VisitRecord
<1> QED
  BY <1>1, <1>2, <1>3, <1>4

\* The state of a node is one of the six, and a frame that has one says nothing of the run.
LEMMA FrameStates ==
  ASSUME NEW type, NodeStateFromEvent(type) # "none"
  PROVE  /\ NodeStateFromEvent(type) \in VisitStates
         /\ \A now : RunStateFromEvent(type, now) = now
         /\ type # "edge.traversed"
BY DEF NodeStateFromEvent, RunStateFromEvent, VisitStates

\* A frame about a node, field by field.
LEMMA FrameFields ==
  ASSUME NEW r, IsReplay(r), NEW frame, NodeStateFromEvent(frame.type) # "none"
  PROVE  /\ ApplyFrame(r, frame).nodeVisits = Visited(r, frame).nodeVisits
         /\ ApplyFrame(r, frame).open = Visited(r, frame).open
         /\ ApplyFrame(r, frame).runStatus = r.runStatus
         /\ ApplyFrame(r, frame).nodeVisits \in Seq(VisitRecord) /\ ApplyFrame(r, frame).open \subseteq Nat
              => ApplyFrame(r, frame) \in Replays
<1>1. /\ \A now : RunStateFromEvent(frame.type, now) = now
      /\ frame.type # "edge.traversed"
  BY FrameStates
<1>2. r \in Replays
  BY DEF IsReplay
<1>3. ApplyFrame(r, frame) =
        [applied |-> r.applied + 1, runStatus |-> r.runStatus,
         nodeVisits |-> Visited(r, frame).nodeVisits, open |-> Visited(r, frame).open,
         crossed |-> r.crossed + 0]
  BY <1>1, Zenon DEF ApplyFrame
<1> QED
  BY <1>2, <1>3 DEF Replays

\* A frame that says nothing of a node changes no visit.
LEMMA FrameIsSilent ==
  ASSUME NEW r, IsReplay(r), NEW frame, NodeStateFromEvent(frame.type) = "none"
  PROVE  /\ IsReplay(ApplyFrame(r, frame))
         /\ ApplyFrame(r, frame).nodeVisits = r.nodeVisits
         /\ ApplyFrame(r, frame).runStatus = RunStateFromEvent(frame.type, r.runStatus)
<1> DEFINE told == RunStateFromEvent(frame.type, r.runStatus)
           count == r.crossed + (IF frame.type = "edge.traversed" THEN 1 ELSE 0)
<1>1. r \in Replays
  BY DEF IsReplay
<1>2. ApplyFrame(r, frame) =
        [applied |-> r.applied + 1, runStatus |-> told, nodeVisits |-> r.nodeVisits, open |-> r.open,
         crossed |-> count]
  BY Zenon DEF ApplyFrame
<1>3. told \in {"created", "running", "paused", "completed", "failed", "cancelled"}
  BY <1>1 DEF RunStateFromEvent, Replays
<1>4. count \in Nat
  BY <1>1 DEF Replays
<1> HIDE DEF told, count
<1>5. /\ ApplyFrame(r, frame) \in Replays
      /\ ApplyFrame(r, frame).nodeVisits = r.nodeVisits
      /\ ApplyFrame(r, frame).open = r.open
      /\ ApplyFrame(r, frame).runStatus = told
  BY <1>1, <1>2, <1>3, <1>4 DEF Replays
<1> QED
  BY <1>5 DEF IsReplay, told

\* A frame that finds no open visit adds one.
LEMMA FrameAdds ==
  ASSUME NEW r, IsReplay(r), NEW frame, frame.node \in Nodes, frame.token \in Nat,
         NodeStateFromEvent(frame.type) # "none",
         \A i \in 1..Len(r.nodeVisits) : Of(frame, r.nodeVisits[i]) => VisitEnds(r.nodeVisits[i].state)
  PROVE  Added(r, ApplyFrame(r, frame), frame)
<1> DEFINE state == NodeStateFromEvent(frame.type)
           shown == r.nodeVisits
           s == ApplyFrame(r, frame)
<1>1. r \in Replays /\ shown \in Seq(VisitRecord) /\ Len(shown) \in Nat /\ r.applied \in Nat
  BY VisitsTyped
<1>2. OpenVisits(r, frame) = {}
  BY DEF OpenVisits, Correlated, IsReplay
<1> DEFINE count == Cardinality(Correlated(r, frame)) + 1
           visit == [node |-> frame.node, token |-> frame.token, visit |-> count, state |-> state,
                     lastSequence |-> r.applied + 1]
<1>3. count \in Nat
  <2>1. Correlated(r, frame) \subseteq 1..Len(shown)
    BY DEF Correlated
  <2>2. IsFiniteSet(1..Len(shown))
    BY <1>1, FS_Interval
  <2> QED
    BY <2>1, <2>2, FS_Subset, FS_CardinalityType
<1>4. visit \in VisitRecord
  BY <1>1, <1>3, FrameStates DEF VisitRecord
<1>5. /\ Visited(r, frame).nodeVisits = Append(shown, visit)
      /\ Visited(r, frame).open =
           IF VisitEnds(state) THEN r.open \ {Len(shown) + 1} ELSE r.open \cup {Len(shown) + 1}
  BY <1>1, <1>2 DEF Visited, Replays
<1>6. /\ s.nodeVisits = Append(shown, visit) /\ s.runStatus = r.runStatus
      /\ s.open = IF VisitEnds(state) THEN r.open \ {Len(shown) + 1} ELSE r.open \cup {Len(shown) + 1}
      /\ s.nodeVisits \in Seq(VisitRecord) /\ s.open \subseteq Nat => s \in Replays
  BY <1>5, FrameFields
<1> HIDE DEF visit, s
<1>7. /\ s.nodeVisits \in Seq(VisitRecord) /\ Len(s.nodeVisits) = Len(shown) + 1
      /\ s.nodeVisits[Len(shown) + 1] = visit
      /\ \A j \in 1..Len(shown) : s.nodeVisits[j] = shown[j]
  BY <1>1, <1>4, <1>6
<1>8. visit.node = frame.node /\ visit.token = frame.token /\ visit.state = state
  BY DEF visit
<1>9. r.open = {i \in 1..Len(shown) : ~VisitEnds(shown[i].state)}
  BY DEF IsReplay
<1>10. s.open = {i \in 1..Len(s.nodeVisits) : ~VisitEnds(s.nodeVisits[i].state)}
  BY <1>1, <1>6, <1>7, <1>8, <1>9
<1>11. s \in Replays
  BY <1>1, <1>5, <1>6, <1>7, <1>9 DEF Replays
<1> QED
  BY <1>1, <1>6, <1>7, <1>8, <1>10, <1>11 DEF Added, IsReplay, s

\* A frame that finds its visit open moves that one.
LEMMA FrameMoves ==
  ASSUME NEW r, IsReplay(r), NEW frame, frame.node \in Nodes, frame.token \in Nat,
         NodeStateFromEvent(frame.type) # "none", frame.type # "node.queued",
         NEW i \in 1..Len(r.nodeVisits), Of(frame, r.nodeVisits[i]), ~VisitEnds(r.nodeVisits[i].state),
         \A j \in 1..Len(r.nodeVisits) :
           j # i /\ r.nodeVisits[j].token = frame.token => VisitEnds(r.nodeVisits[j].state)
  PROVE  Moved(r, ApplyFrame(r, frame), i, frame)
<1> DEFINE state == NodeStateFromEvent(frame.type)
           shown == r.nodeVisits
           s == ApplyFrame(r, frame)
<1>1. r \in Replays /\ shown \in Seq(VisitRecord) /\ Len(shown) \in Nat /\ r.applied \in Nat
  BY VisitsTyped
<1>2. OpenVisits(r, frame) = {i}
  BY DEF OpenVisits, Correlated, IsReplay, Of
<1> DEFINE visit == [node |-> frame.node, token |-> frame.token, visit |-> shown[i].visit, state |-> state,
                     lastSequence |-> r.applied + 1]
<1>3. visit \in VisitRecord
  <2>1. shown[i] \in VisitRecord
    BY VisitsTyped
  <2>2. shown[i].visit \in Nat
    BY <2>1 DEF VisitRecord
  <2> QED
    BY <1>1, <2>2, FrameStates DEF VisitRecord
<1>4. /\ Visited(r, frame).nodeVisits = [shown EXCEPT ![i] = visit]
      /\ Visited(r, frame).open = IF VisitEnds(state) THEN r.open \ {i} ELSE (r.open \ {i}) \cup {i}
  <2>1. (CHOOSE j \in {i} : TRUE) = i
    OBVIOUS
  <2> QED
    BY <1>2, <2>1 DEF Visited
<1>5. /\ s.nodeVisits = [shown EXCEPT ![i] = visit] /\ s.runStatus = r.runStatus
      /\ s.open = IF VisitEnds(state) THEN r.open \ {i} ELSE (r.open \ {i}) \cup {i}
      /\ s.nodeVisits \in Seq(VisitRecord) /\ s.open \subseteq Nat => s \in Replays
  BY <1>4, FrameFields
<1> HIDE DEF visit, s
<1>6. /\ s.nodeVisits \in Seq(VisitRecord) /\ Len(s.nodeVisits) = Len(shown) /\ s.nodeVisits[i] = visit
      /\ \A j \in 1..Len(shown) : j # i => s.nodeVisits[j] = shown[j]
  BY <1>1, <1>3, <1>5
<1>7. visit.node = frame.node /\ visit.token = frame.token /\ visit.state = state
  BY DEF visit
<1>8. r.open = {j \in 1..Len(shown) : ~VisitEnds(shown[j].state)}
  BY DEF IsReplay
<1>9. s.open = {j \in 1..Len(s.nodeVisits) : ~VisitEnds(s.nodeVisits[j].state)}
  BY <1>1, <1>5, <1>6, <1>7, <1>8
<1>10. s \in Replays
  BY <1>1, <1>5, <1>6, <1>8
<1> QED
  BY <1>1, <1>5, <1>6, <1>7, <1>9, <1>10 DEF Moved, IsReplay, s

\* The tokens shown in a state, place by place.
LEMMA ShownInState ==
  ASSUME NEW r, IsReplay(r), NEW state, NEW x
  PROVE  x \in VisitsIn(r, state) <=>
           \E i \in 1..Len(r.nodeVisits) : /\ r.nodeVisits[i].state = state
                                           /\ x = <<r.nodeVisits[i].node, r.nodeVisits[i].token>>
<1>1. r.nodeVisits \in Seq(VisitRecord)
  BY VisitsTyped
<1>2. DOMAIN r.nodeVisits = 1..Len(r.nodeVisits)
  BY <1>1
<1> QED
  BY <1>2 DEF VisitsIn, Range

\* A token that is queued or running has no other visit.
LEMMA OneVisit ==
  ASSUME NEW r, NEW q, NEW p, NEW h, NEW n, NEW b, Tracks(r, q, p, h, n, b),
         NEW frame, <<frame.node, frame.token>> \in q \cup p
  PROVE  /\ frame.token \in 1..n
         /\ \E i \in 1..Len(r.nodeVisits) :
              /\ Of(frame, r.nodeVisits[i]) /\ ~VisitEnds(r.nodeVisits[i].state)
              /\ r.nodeVisits[i].state \in {"queued", "running"}
              /\ \A j \in 1..Len(r.nodeVisits) : j # i => r.nodeVisits[j].token # frame.token
<1>1. IsReplay(r) /\ n \in Nat
  BY DEF Tracks
<1>2. PICK i \in 1..Len(r.nodeVisits) :
        /\ r.nodeVisits[i].state \in {"queued", "running"}
        /\ <<frame.node, frame.token>> = <<r.nodeVisits[i].node, r.nodeVisits[i].token>>
  BY <1>1, ShownInState DEF Tracks
<1>3. ~VisitEnds(r.nodeVisits[i].state)
  BY <1>2 DEF VisitEnds
<1>4. frame.token = r.nodeVisits[i].token /\ frame.node = r.nodeVisits[i].node
  BY <1>2
<1>5. r.nodeVisits[i].token \in Nat
  BY <1>1, VisitsTyped
<1>6. frame.token # 0 /\ frame.token <= n
  BY <1>3, <1>4 DEF Tracks
<1>7. \A j \in 1..Len(r.nodeVisits) : j # i => r.nodeVisits[j].token # frame.token
  BY <1>3, <1>4, <1>6 DEF Tracks
<1> QED
  BY <1>1, <1>2, <1>3, <1>4, <1>5, <1>6, <1>7 DEF Of

\* A frame of a token that is queued or running moves its visit.
LEMMA TracksMove ==
  ASSUME NEW r, NEW q, NEW p, NEW h, NEW n, NEW b, Tracks(r, q, p, h, n, b),
         NEW frame, frame.node \in Nodes, <<frame.node, frame.token>> \in q \cup p,
         NodeStateFromEvent(frame.type) # "none", frame.type # "node.queued",
         NEW state, state = NodeStateFromEvent(frame.type),
         NEW s, s = ApplyFrame(r, frame), NEW t, t = <<frame.node, frame.token>>,
         NEW runs, runs = IF state = "running" THEN p \cup {t} ELSE p \ {t},
         NEW waits, waits = IF state = "waiting" THEN h \cup {t} ELSE h
  PROVE  /\ Tracks(s, q \ {t}, runs, waits, n, b)
         /\ t \in VisitsIn(s, state) /\ s.runStatus = r.runStatus
<1>1. IsReplay(r) /\ n \in Nat
  BY DEF Tracks
<1>2. frame.token \in 1..n
  BY OneVisit
<1>3. PICK i \in 1..Len(r.nodeVisits) :
        /\ Of(frame, r.nodeVisits[i]) /\ ~VisitEnds(r.nodeVisits[i].state)
        /\ r.nodeVisits[i].state \in {"queued", "running"}
        /\ \A j \in 1..Len(r.nodeVisits) : j # i => r.nodeVisits[j].token # frame.token
  BY OneVisit
<1>4. Moved(r, s, i, frame)
  BY <1>1, <1>2, <1>3, FrameMoves
<1>5. state \in VisitStates \ {"queued"}
  BY DEF NodeStateFromEvent, VisitStates
<1>6. /\ IsReplay(s) /\ s.runStatus = r.runStatus /\ Len(s.nodeVisits) = Len(r.nodeVisits)
      /\ <<s.nodeVisits[i].node, s.nodeVisits[i].token>> = t /\ s.nodeVisits[i].state = state
      /\ s.nodeVisits[i].token = frame.token
      /\ \A j \in 1..Len(r.nodeVisits) : j # i => s.nodeVisits[j] = r.nodeVisits[j]
  BY <1>4 DEF Moved
<1>7. \A j \in 1..Len(r.nodeVisits) : j # i => <<r.nodeVisits[j].node, r.nodeVisits[j].token>> # t
  BY <1>3
<1>8. <<r.nodeVisits[i].node, r.nodeVisits[i].token>> = t
  BY <1>3 DEF Of
<1>9. ASSUME NEW any, NEW x
      PROVE  x \in VisitsIn(s, any) <=> (x \in VisitsIn(r, any) /\ x # t) \/ (x = t /\ any = state)
  <2>1. x \in VisitsIn(s, any) <=>
          \E j \in 1..Len(r.nodeVisits) : /\ s.nodeVisits[j].state = any
                                          /\ x = <<s.nodeVisits[j].node, s.nodeVisits[j].token>>
    BY <1>6, ShownInState
  <2>2. x \in VisitsIn(r, any) <=>
          \E j \in 1..Len(r.nodeVisits) : /\ r.nodeVisits[j].state = any
                                          /\ x = <<r.nodeVisits[j].node, r.nodeVisits[j].token>>
    BY <1>1, ShownInState
  <2>3. CASE x = t
    BY <2>1, <2>3, <1>6, <1>7
  <2>4. CASE x # t
    BY <2>1, <2>2, <2>4, <1>6, <1>8
  <2> QED
    BY <2>3, <2>4
<1>10. /\ VisitsIn(r, "queued") = q /\ VisitsIn(r, "running") = p /\ h \subseteq VisitsIn(r, "waiting")
  BY DEF Tracks
<1>11. t \notin VisitsIn(r, "waiting")
  <2>1. r.nodeVisits[i].state # "waiting"
    BY <1>3
  <2> QED
    BY <2>1, <1>1, <1>7, ShownInState
<1>12. /\ VisitsIn(s, "queued") = q \ {t}
       /\ VisitsIn(s, "running") = runs
       /\ waits \subseteq VisitsIn(s, "waiting")
       /\ t \in VisitsIn(s, state)
  <2>1. VisitsIn(s, "queued") = q \ {t}
    BY <1>5, <1>9, <1>10
  <2>2. VisitsIn(s, "running") = runs
    BY <1>9, <1>10
  <2>3. waits \subseteq VisitsIn(s, "waiting")
    BY <1>9, <1>10, <1>11
  <2> QED
    BY <1>9, <2>1, <2>2, <2>3
<1>13. \A j \in 1..Len(r.nodeVisits) :
         /\ s.nodeVisits[j].token <= n /\ (s.nodeVisits[j].token = 0 => VisitEnds(s.nodeVisits[j].state))
         /\ j # i => s.nodeVisits[j].token # s.nodeVisits[i].token
  BY <1>2, <1>3, <1>6 DEF Tracks
<1>14. \A j, k \in 1..Len(r.nodeVisits) :
         j # k /\ s.nodeVisits[j].token = s.nodeVisits[k].token /\ s.nodeVisits[j].token # 0 =>
           /\ s.nodeVisits[j].node = s.nodeVisits[k].node /\ VisitEnds(s.nodeVisits[j].state)
           /\ VisitEnds(s.nodeVisits[k].state) /\ s.nodeVisits[j].token \in b
  <2> SUFFICES ASSUME NEW j \in 1..Len(r.nodeVisits), NEW k \in 1..Len(r.nodeVisits),
                      j # k, s.nodeVisits[j].token = s.nodeVisits[k].token, s.nodeVisits[j].token # 0
               PROVE  /\ s.nodeVisits[j].node = s.nodeVisits[k].node /\ VisitEnds(s.nodeVisits[j].state)
                      /\ VisitEnds(s.nodeVisits[k].state) /\ s.nodeVisits[j].token \in b
    OBVIOUS
  <2>1. j # i /\ k # i
    BY <1>13
  <2>2. s.nodeVisits[j] = r.nodeVisits[j] /\ s.nodeVisits[k] = r.nodeVisits[k]
    BY <2>1, <1>6
  <2> QED
    BY <2>2 DEF Tracks
<1>15. Tracks(s, q \ {t}, runs, waits, n, b)
  BY <1>1, <1>6, <1>12, <1>13, <1>14 DEF Tracks
<1> QED
  BY <1>6, <1>12, <1>15

\* The tokens shown after a frame that opens a visit.
LEMMA ShownAdded ==
  ASSUME NEW r, IsReplay(r), NEW s, NEW frame, Added(r, s, frame), NEW state, NEW x
  PROVE  x \in VisitsIn(s, state) <=>
           \/ x \in VisitsIn(r, state)
           \/ x = <<frame.node, frame.token>> /\ state = NodeStateFromEvent(frame.type)
<1>1. /\ IsReplay(s) /\ Len(s.nodeVisits) = Len(r.nodeVisits) + 1 /\ Len(r.nodeVisits) \in Nat
      /\ s.nodeVisits[Len(s.nodeVisits)].node = frame.node
      /\ s.nodeVisits[Len(s.nodeVisits)].token = frame.token
      /\ s.nodeVisits[Len(s.nodeVisits)].state = NodeStateFromEvent(frame.type)
      /\ \A j \in 1..Len(r.nodeVisits) : s.nodeVisits[j] = r.nodeVisits[j]
  BY VisitsTyped DEF Added
<1>2. x \in VisitsIn(s, state) <=>
        \E j \in 1..Len(s.nodeVisits) : /\ s.nodeVisits[j].state = state
                                        /\ x = <<s.nodeVisits[j].node, s.nodeVisits[j].token>>
  BY <1>1, ShownInState
<1>3. x \in VisitsIn(r, state) <=>
        \E j \in 1..Len(r.nodeVisits) : /\ r.nodeVisits[j].state = state
                                        /\ x = <<r.nodeVisits[j].node, r.nodeVisits[j].token>>
  BY ShownInState
<1>4. 1..Len(s.nodeVisits) = 1..Len(r.nodeVisits) \cup {Len(s.nodeVisits)}
  BY <1>1
<1> QED
  BY <1>1, <1>2, <1>3, <1>4

\* A new token opens a visit, which is shown as queued.
LEMMA TracksQueue ==
  ASSUME NEW r, NEW q, NEW p, NEW h, NEW n, NEW b, Tracks(r, q, p, h, n, b),
         NEW frame, frame.node \in Nodes, frame.token = n + 1, frame.type = "node.queued"
  PROVE  /\ Tracks(ApplyFrame(r, frame), q \cup {<<frame.node, frame.token>>}, p, h, frame.token, b)
         /\ ApplyFrame(r, frame).runStatus = r.runStatus
<1> DEFINE s == ApplyFrame(r, frame)
           t == <<frame.node, frame.token>>
           k == Len(s.nodeVisits)
<1>1. IsReplay(r) /\ n \in Nat /\ NodeStateFromEvent(frame.type) = "queued" /\ ~VisitEnds("queued")
  BY DEF Tracks, NodeStateFromEvent, VisitEnds
<1>2. \A i \in 1..Len(r.nodeVisits) : r.nodeVisits[i].token <= n
  BY DEF Tracks
<1>3. Added(r, s, frame)
  <2>1. \A i \in 1..Len(r.nodeVisits) : r.nodeVisits[i].token # frame.token
    BY <1>1, <1>2
  <2>2. \A i \in 1..Len(r.nodeVisits) : ~Of(frame, r.nodeVisits[i])
    BY <2>1 DEF Of
  <2> QED
    BY <1>1, <2>2, FrameAdds
<1>4. \A any, x : x \in VisitsIn(s, any) <=> x \in VisitsIn(r, any) \/ (x = t /\ any = "queued")
  BY <1>1, <1>3, ShownAdded
<1> HIDE DEF s
<1>5. /\ IsReplay(s) /\ s.runStatus = r.runStatus /\ k = Len(r.nodeVisits) + 1
      /\ s.nodeVisits[k].token = n + 1 /\ \A j \in 1..Len(r.nodeVisits) : s.nodeVisits[j] = r.nodeVisits[j]
  BY <1>3 DEF Added
<1> HIDE DEF t, k
<1>6. Len(r.nodeVisits) \in Nat
  BY <1>1, VisitsTyped
<1>7. /\ VisitsIn(s, "queued") = q \cup {t} /\ VisitsIn(s, "running") = p /\ h \subseteq VisitsIn(s, "waiting")
  <2>1. /\ VisitsIn(r, "queued") = q /\ VisitsIn(r, "running") = p /\ h \subseteq VisitsIn(r, "waiting")
    BY DEF Tracks
  <2>2. VisitsIn(s, "queued") = q \cup {t}
    <3>1. \A x : x \in VisitsIn(s, "queued") <=> x \in VisitsIn(r, "queued") \/ x = t
      BY <1>4
    <3>2. VisitsIn(s, "queued") = VisitsIn(r, "queued") \cup {t}
      BY <3>1
    <3> QED
      BY <2>1, <3>2
  <2>3. VisitsIn(s, "running") = p
    <3>1. \A x : x \in VisitsIn(s, "running") <=> x \in VisitsIn(r, "running")
      BY <1>4
    <3>2. VisitsIn(s, "running") = VisitsIn(r, "running")
      BY <3>1
    <3> QED
      BY <2>1, <3>2
  <2>4. h \subseteq VisitsIn(s, "waiting")
    BY <1>4, <2>1
  <2> QED
    BY <2>2, <2>3, <2>4
<1>8. \A j \in 1..k : /\ s.nodeVisits[j].token <= n + 1
                      /\ s.nodeVisits[j].token = 0 => VisitEnds(s.nodeVisits[j].state)
                      /\ j # k => s.nodeVisits[j].token # n + 1
  <2> SUFFICES ASSUME NEW j \in 1..k
               PROVE  /\ s.nodeVisits[j].token <= n + 1
                      /\ s.nodeVisits[j].token = 0 => VisitEnds(s.nodeVisits[j].state)
                      /\ j # k => s.nodeVisits[j].token # n + 1
    OBVIOUS
  <2>1. CASE j = k
    BY <1>1, <1>5, <2>1
  <2>2. CASE j # k
    <3>1. j \in 1..Len(r.nodeVisits) /\ s.nodeVisits[j] = r.nodeVisits[j]
      BY <1>5, <1>6, <2>2
    <3>2. r.nodeVisits[j].token <= n /\ (r.nodeVisits[j].token = 0 => VisitEnds(r.nodeVisits[j].state))
          /\ r.nodeVisits[j].token \in Nat
      BY <1>1, <3>1, VisitsTyped DEF Tracks
    <3> QED
      BY <1>1, <2>2, <3>1, <3>2
  <2> QED
    BY <2>1, <2>2
<1>9. \A i, j \in 1..k :
        i # j /\ s.nodeVisits[i].token = s.nodeVisits[j].token /\ s.nodeVisits[i].token # 0 =>
          /\ s.nodeVisits[i].node = s.nodeVisits[j].node /\ VisitEnds(s.nodeVisits[i].state)
          /\ VisitEnds(s.nodeVisits[j].state) /\ s.nodeVisits[i].token \in b
  <2> SUFFICES ASSUME NEW i \in 1..k, NEW j \in 1..k,
                      i # j, s.nodeVisits[i].token = s.nodeVisits[j].token, s.nodeVisits[i].token # 0
               PROVE  /\ s.nodeVisits[i].node = s.nodeVisits[j].node /\ VisitEnds(s.nodeVisits[i].state)
                      /\ VisitEnds(s.nodeVisits[j].state) /\ s.nodeVisits[i].token \in b
    OBVIOUS
  <2>1. i # k /\ j # k
    BY <1>5, <1>8
  <2>2. i \in 1..Len(r.nodeVisits) /\ j \in 1..Len(r.nodeVisits)
    BY <1>5, <1>6, <2>1
  <2>3. s.nodeVisits[i] = r.nodeVisits[i] /\ s.nodeVisits[j] = r.nodeVisits[j]
    BY <2>2, <1>5
  <2> QED
    BY <2>2, <2>3 DEF Tracks
<1>10. Tracks(s, q \cup {t}, p, h, n + 1, b)
  BY <1>1, <1>5, <1>7, <1>8, <1>9 DEF Tracks, k
<1>11. frame.token = n + 1
  OBVIOUS
<1> QED
  BY <1>5, <1>10, <1>11 DEF s, t

\* A frame that says nothing of a node changes no token.
LEMMA TracksSilent ==
  ASSUME NEW r, NEW q, NEW p, NEW h, NEW n, NEW b, Tracks(r, q, p, h, n, b),
         NEW frame, NodeStateFromEvent(frame.type) = "none"
  PROVE  /\ Tracks(ApplyFrame(r, frame), q, p, h, n, b)
         /\ ApplyFrame(r, frame).runStatus = RunStateFromEvent(frame.type, r.runStatus)
<1> DEFINE s == ApplyFrame(r, frame)
<1>1. IsReplay(r)
  BY DEF Tracks
<1>2. /\ IsReplay(s) /\ s.nodeVisits = r.nodeVisits
      /\ s.runStatus = RunStateFromEvent(frame.type, r.runStatus)
  BY <1>1, FrameIsSilent
<1> HIDE DEF s
<1>3. \A state : VisitsIn(s, state) = VisitsIn(r, state)
  BY <1>2 DEF VisitsIn
<1>4. Tracks(s, q, p, h, n, b)
  BY <1>2, <1>3 DEF Tracks
<1> QED
  BY <1>2, <1>4 DEF s

\* Fewer tokens held, and more that have a second visit.
LEMMA TracksWider ==
  ASSUME NEW r, NEW q, NEW p, NEW h, NEW n, NEW b, Tracks(r, q, p, h, n, b),
         NEW g \in SUBSET h, NEW c, b \subseteq c
  PROVE  Tracks(r, q, p, g, n, c)
BY DEF Tracks

\* A failure of a visit that has completed, or of no token, is shown as another visit.
LEMMA TracksAgain ==
  ASSUME NEW r, NEW q, NEW p, NEW h, NEW n, NEW b, Tracks(r, q, p, h, n, b),
         NEW frame, frame.node \in Nodes, frame.type = "node.failed",
         frame.token = 0 \/ <<frame.node, frame.token>> \in VisitsIn(r, "completed"),
         frame.token # 0 => frame.token \in b
  PROVE  /\ Tracks(ApplyFrame(r, frame), q, p, h, n, b)
         /\ ApplyFrame(r, frame).runStatus = r.runStatus
<1> DEFINE s == ApplyFrame(r, frame)
           t == <<frame.node, frame.token>>
           k == Len(s.nodeVisits)
<1>1. IsReplay(r) /\ n \in Nat /\ NodeStateFromEvent(frame.type) = "failed" /\ VisitEnds("failed")
  BY DEF Tracks, NodeStateFromEvent, VisitEnds
<1>2. /\ Len(r.nodeVisits) \in Nat
      /\ \A i \in 1..Len(r.nodeVisits) : r.nodeVisits[i].token \in Nat
  BY <1>1, VisitsTyped
<1>3. /\ frame.token \in 0..n
      /\ \A i \in 1..Len(r.nodeVisits) : r.nodeVisits[i].token = frame.token =>
           VisitEnds(r.nodeVisits[i].state) /\ (frame.token # 0 => r.nodeVisits[i].node = frame.node)
  <2>1. CASE frame.token = 0
    BY <1>1, <2>1 DEF Tracks
  <2>2. CASE frame.token # 0
    <3>1. PICK i \in 1..Len(r.nodeVisits) : /\ r.nodeVisits[i].state = "completed"
                                           /\ t = <<r.nodeVisits[i].node, r.nodeVisits[i].token>>
      BY <1>1, <2>2, ShownInState
    <3>2. VisitEnds(r.nodeVisits[i].state) /\ r.nodeVisits[i].token = frame.token /\ r.nodeVisits[i].node = frame.node
      BY <3>1 DEF VisitEnds
    <3>3. frame.token \in 0..n
      BY <1>1, <1>2, <3>2 DEF Tracks
    <3>4. ASSUME NEW j \in 1..Len(r.nodeVisits), r.nodeVisits[j].token = frame.token
          PROVE  VisitEnds(r.nodeVisits[j].state) /\ r.nodeVisits[j].node = frame.node
      <4>1. CASE j = i
        BY <3>2, <4>1
      <4>2. CASE j # i
        BY <2>2, <3>2, <3>4, <4>2 DEF Tracks
      <4> QED
        BY <4>1, <4>2
    <3> QED
      BY <3>3, <3>4
  <2> QED
    BY <2>1, <2>2
<1>4. Added(r, s, frame)
  <2>1. \A i \in 1..Len(r.nodeVisits) : Of(frame, r.nodeVisits[i]) => VisitEnds(r.nodeVisits[i].state)
    BY <1>3 DEF Of
  <2> QED
    BY <1>1, <1>3, <2>1, FrameAdds
<1>5. ASSUME NEW any, any # "failed"
      PROVE  VisitsIn(s, any) = VisitsIn(r, any)
  <2>1. \A x : x \in VisitsIn(s, any) <=> x \in VisitsIn(r, any)
    BY <1>1, <1>4, <1>5, ShownAdded
  <2> QED
    BY <2>1
<1> HIDE DEF s
<1>6. /\ IsReplay(s) /\ s.runStatus = r.runStatus /\ k = Len(r.nodeVisits) + 1
      /\ s.nodeVisits[k].token = frame.token /\ s.nodeVisits[k].node = frame.node
      /\ s.nodeVisits[k].state = "failed"
      /\ \A j \in 1..Len(r.nodeVisits) : s.nodeVisits[j] = r.nodeVisits[j]
  BY <1>1, <1>4 DEF Added
<1> HIDE DEF t, k
<1>7. /\ VisitsIn(s, "queued") = q /\ VisitsIn(s, "running") = p /\ h \subseteq VisitsIn(s, "waiting")
  BY <1>5 DEF Tracks
<1>8. \A j \in 1..k : s.nodeVisits[j].token <= n /\ (s.nodeVisits[j].token = 0 => VisitEnds(s.nodeVisits[j].state))
  <2> SUFFICES ASSUME NEW j \in 1..k
               PROVE  /\ s.nodeVisits[j].token <= n
                      /\ s.nodeVisits[j].token = 0 => VisitEnds(s.nodeVisits[j].state)
    OBVIOUS
  <2>1. CASE j = k
    BY <1>1, <1>3, <1>6, <2>1
  <2>2. CASE j # k
    <3>1. j \in 1..Len(r.nodeVisits) /\ s.nodeVisits[j] = r.nodeVisits[j]
      BY <1>2, <1>6, <2>2
    <3> QED
      BY <3>1 DEF Tracks
  <2> QED
    BY <2>1, <2>2
<1>9. \A i, j \in 1..k :
        i # j /\ s.nodeVisits[i].token = s.nodeVisits[j].token /\ s.nodeVisits[i].token # 0 =>
          /\ s.nodeVisits[i].node = s.nodeVisits[j].node /\ VisitEnds(s.nodeVisits[i].state)
          /\ VisitEnds(s.nodeVisits[j].state) /\ s.nodeVisits[i].token \in b
  <2> SUFFICES ASSUME NEW i \in 1..k, NEW j \in 1..k,
                      i # j, s.nodeVisits[i].token = s.nodeVisits[j].token, s.nodeVisits[i].token # 0
               PROVE  /\ s.nodeVisits[i].node = s.nodeVisits[j].node /\ VisitEnds(s.nodeVisits[i].state)
                      /\ VisitEnds(s.nodeVisits[j].state) /\ s.nodeVisits[i].token \in b
    OBVIOUS
  <2>1. \A m \in 1..k : m # k => m \in 1..Len(r.nodeVisits) /\ s.nodeVisits[m] = r.nodeVisits[m]
    BY <1>2, <1>6
  <2>2. CASE i = k
    BY <1>1, <1>3, <1>6, <2>1, <2>2
  <2>3. CASE j = k
    BY <1>1, <1>3, <1>6, <2>1, <2>3
  <2>4. CASE i # k /\ j # k
    BY <2>1, <2>4 DEF Tracks
  <2> QED
    BY <2>2, <2>3, <2>4
<1>10. Tracks(s, q, p, h, n, b)
  BY <1>1, <1>6, <1>7, <1>8, <1>9 DEF Tracks, k
<1> QED
  BY <1>6, <1>10 DEF s

-------------------------------------------------------------------------------
(* The replay of a timeline.                                                *)

\* A set of numbers that is not empty has a least one.
LEMMA LeastNumber ==
  ASSUME NEW T \in SUBSET Nat, T # {}
  PROVE  \E n \in T : \A m \in T : n <= m
<1>1. PICK n \in T : \A m \in T : <<m, n>> \notin OpToRel(<, Nat)
  BY NatLessThanWellFounded, WFMin, Zenon
<1>2. \A m \in T : ~(m < n)
  BY <1>1 DEF OpToRel
<1> QED
  BY <1>2

\* The replays of a timeline up to an index.
Plays(timeline, index, replay) ==
  replay = [i \in 0..index |-> IF i = 0 THEN Unplayed ELSE ApplyFrame(replay[i - 1], timeline[i])]

\* They exist, of any length.
LEMMA PlayExists ==
  ASSUME NEW timeline, NEW n \in Nat
  PROVE  \E replay : Plays(timeline, n, replay)
<1> DEFINE T == {m \in Nat : ~ \E replay : Plays(timeline, m, replay)}
<1> SUFFICES ASSUME T # {} PROVE FALSE
  OBVIOUS
<1>1. PICK m \in T : \A k \in T : m <= k
  BY LeastNumber, Zenon
<1>2. CASE m = 0
  <2>1. Plays(timeline, 0, [k \in 0..0 |-> Unplayed])
    BY DEF Plays
  <2> QED
    BY <1>1, <1>2, <2>1
<1>3. CASE m # 0
  <2>1. m - 1 \in Nat /\ m - 1 \notin T
    BY <1>1, <1>3
  <2>2. PICK replay : Plays(timeline, m - 1, replay)
    BY <2>1
  <2> DEFINE more == [k \in 0..m |-> IF k < m THEN replay[k] ELSE ApplyFrame(replay[m - 1], timeline[m])]
  <2>3. \A k \in 0..m - 1 : replay[k] = IF k = 0 THEN Unplayed ELSE ApplyFrame(replay[k - 1], timeline[k])
    BY <2>2 DEF Plays
  <2>4. \A k \in 1..m : more[k - 1] = replay[k - 1]
    BY <1>1
  <2>5. \A k \in 0..m : more[k] = IF k = 0 THEN Unplayed ELSE ApplyFrame(more[k - 1], timeline[k])
    BY <1>1, <1>3, <2>3, <2>4
  <2>6. Plays(timeline, m, more)
    BY <2>5 DEF Plays
  <2> QED
    BY <1>1, <2>6
<1> QED
  BY <1>2, <1>3

\* One frame more.
LEMMA PlayUnfolds ==
  ASSUME NEW timeline, NEW n \in Nat, NEW replay, Plays(timeline, n, replay)
  PROVE  /\ replay[0] = Unplayed
         /\ \A m \in 1..n : replay[m] = ApplyFrame(replay[m - 1], timeline[m])
<1> DEFINE one == [m \in 0..n |-> IF m = 0 THEN Unplayed ELSE ApplyFrame(replay[m - 1], timeline[m])]
<1>1. replay = one
  BY DEF Plays
<1>2. /\ one[0] = Unplayed
      /\ \A m \in 1..n : one[m] = ApplyFrame(replay[m - 1], timeline[m])
  OBVIOUS
<1> HIDE DEF one
<1> QED
  BY <1>1, <1>2

\* Timelines that begin alike are played alike.
LEMMA PlaysAlike ==
  ASSUME NEW timeline, NEW longer, NEW m \in Nat, NEW n \in Nat, m <= n,
         NEW replay, Plays(timeline, m, replay), NEW further, Plays(longer, n, further),
         \A i \in 1..m : longer[i] = timeline[i]
  PROVE  \A i \in 0..m : further[i] = replay[i]
<1> DEFINE T == {i \in 0..m : further[i] # replay[i]}
<1> SUFFICES ASSUME T # {} PROVE FALSE
  OBVIOUS
<1>0. T \in SUBSET Nat
  OBVIOUS
<1>1. PICK i \in T : \A k \in T : i <= k
  BY <1>0, LeastNumber, Zenon
<1>2. /\ replay[0] = Unplayed /\ further[0] = Unplayed
      /\ \A k \in 1..m : replay[k] = ApplyFrame(replay[k - 1], timeline[k])
      /\ \A k \in 1..n : further[k] = ApplyFrame(further[k - 1], longer[k])
  BY PlayUnfolds
<1>3. i \in 1..m /\ i \in 1..n /\ i - 1 \in 0..m /\ i - 1 \notin T
  BY <1>1, <1>2
<1>4. further[i - 1] = replay[i - 1] /\ longer[i] = timeline[i]
  BY <1>3
<1>5. further[i] = replay[i]
  BY <1>2, <1>3, <1>4
<1> QED
  BY <1>1, <1>5

\* What is rebuilt at an index is the last of the replays up to it.
LEMMA ReconstructPlays ==
  ASSUME NEW timeline, NEW n \in Nat
  PROVE  \E replay : Plays(timeline, n, replay) /\ Reconstruct(timeline, n) = replay[n]
<1> DEFINE it == CHOOSE replay : Plays(timeline, n, replay)
<1>1. Plays(timeline, n, it)
  BY PlayExists
<1>2. Reconstruct(timeline, n) = it[n]
  BY DEF Reconstruct, Plays
<1> QED
  BY <1>1, <1>2

\* The replay goes on with the next frame, and depends on no later one.
LEMMA ReconstructNext ==
  ASSUME NEW timeline, NEW n \in Nat
  PROVE  /\ Reconstruct(timeline, 0) = Unplayed
         /\ Reconstruct(timeline, n + 1) = ApplyFrame(Reconstruct(timeline, n), timeline[n + 1])
         /\ \A longer : (\A i \in 1..n : longer[i] = timeline[i]) => Reconstruct(longer, n) = Reconstruct(timeline, n)
<1>1. PICK replay : Plays(timeline, n, replay) /\ Reconstruct(timeline, n) = replay[n]
  BY ReconstructPlays
<1>2. PICK further : Plays(timeline, n + 1, further) /\ Reconstruct(timeline, n + 1) = further[n + 1]
  <2>1. n + 1 \in Nat
    OBVIOUS
  <2> QED
    BY <2>1, ReconstructPlays
<1>3. further[n] = replay[n]
  <2>1. n + 1 \in Nat /\ n <= n + 1 /\ n \in 0..n /\ \A i \in 1..n : timeline[i] = timeline[i]
    OBVIOUS
  <2> QED
    BY <1>1, <1>2, <2>1, PlaysAlike, SMTT(30)
<1>4. further[n + 1] = ApplyFrame(further[n], timeline[n + 1])
  <2>1. n + 1 \in 1..n + 1 /\ (n + 1) - 1 = n /\ n + 1 \in Nat
    OBVIOUS
  <2>2. further[n + 1] = ApplyFrame(further[(n + 1) - 1], timeline[n + 1])
    BY <1>2, <2>1, PlayUnfolds
  <2> QED
    BY <2>1, <2>2
<1>5. Reconstruct(timeline, 0) = Unplayed
  BY ReconstructPlays, PlayUnfolds
<1>6. ASSUME NEW longer, \A i \in 1..n : longer[i] = timeline[i]
      PROVE  Reconstruct(longer, n) = Reconstruct(timeline, n)
  <2>1. PICK other : Plays(longer, n, other) /\ Reconstruct(longer, n) = other[n]
    BY ReconstructPlays
  <2>2. other[n] = replay[n]
    <3>1. n <= n /\ n \in 0..n
      OBVIOUS
    <3> QED
      BY <1>1, <1>6, <2>1, <3>1, PlaysAlike
  <2> QED
    BY <1>1, <2>1, <2>2
<1> QED
  BY <1>1, <1>2, <1>3, <1>4, <1>5, <1>6

-------------------------------------------------------------------------------
(* What the Time Machine shows of a run.                                    *)

\* The tokens that an invalid choice names.
Blamed == {events[i].token : i \in {j \in 1..Len(events) : events[j].code = "condition.invalid"}}

\* While the call runs, what is shown as queued is in the queue, and what a join holds is shown
\* as waiting; always, the status is that of the run and the visits are told apart.
ReplayInv ==
  /\ Shown.runStatus = status
  /\ Tracks(Shown, ShownAs("queued"), {}, ShownAs("waiting"), tokens, Blamed)
  /\ status = "running" => ShownAs("queued") = Tokens(queue) /\ Tokens(Held) \subseteq ShownAs("waiting")

\* The new frames are played one after another, from what was shown.
LEMMA FramesFollow ==
  ASSUME EventInv, NEW new \in Seq(EventRecord), events' = events \o new
  PROVE  \E play : /\ play[0] = Shown /\ play[Len(new)] = Shown'
                   /\ \A k \in 1..Len(new) : play[k] = ApplyFrame(play[k - 1], new[k])
<1> DEFINE n == Len(events)
           all == events'
           play == [k \in 0..Len(new) |-> Reconstruct(all, n + k)]
<1>1. /\ n \in Nat /\ Len(new) \in Nat /\ Len(all) = n + Len(new)
      /\ \A i \in 1..n : all[i] = events[i]
      /\ \A i \in 1..Len(new) : all[n + i] = new[i]
  BY Appended
<1>2. Shown = Reconstruct(events, n) /\ Shown' = Reconstruct(all, Len(all))
  BY DEF Shown
<1> HIDE DEF n, all
<1>3. Reconstruct(all, n) = Reconstruct(events, n)
  BY <1>1, ReconstructNext
<1>4. play[0] = Shown /\ play[Len(new)] = Shown'
  BY <1>1, <1>2, <1>3
<1>5. ASSUME NEW k \in 1..Len(new)
      PROVE  play[k] = ApplyFrame(play[k - 1], new[k])
  <2>1. n + (k - 1) \in Nat /\ (n + (k - 1)) + 1 = n + k /\ k \in 0..Len(new) /\ k - 1 \in 0..Len(new)
    BY <1>1
  <2>2. Reconstruct(all, (n + (k - 1)) + 1)
          = ApplyFrame(Reconstruct(all, n + (k - 1)), all[(n + (k - 1)) + 1])
    BY <2>1, ReconstructNext
  <2>3. Reconstruct(all, n + k) = ApplyFrame(Reconstruct(all, n + (k - 1)), new[k])
    BY <2>1, <2>2, <1>1
  <2> QED
    BY <2>1, <2>3
<1> HIDE DEF play
<1> QED
  BY <1>4, <1>5

\* No blame is taken back, and a new one counts.
LEMMA BlamedStay ==
  ASSUME EventInv, NEW new \in Seq(EventRecord), events' = events \o new
  PROVE  /\ Blamed \subseteq Blamed'
         /\ \A k \in 1..Len(new) : new[k].code = "condition.invalid" => new[k].token \in Blamed'
<1>1. /\ Len(events) \in Nat /\ Len(new) \in Nat /\ Len(events') = Len(events) + Len(new)
      /\ \A i \in 1..Len(events) : events'[i] = events[i]
      /\ \A i \in 1..Len(new) : events'[Len(events) + i] = new[i]
  BY Appended
<1>2. \A x : x \in Blamed <=> \E i \in 1..Len(events) : events[i].code = "condition.invalid" /\ x = events[i].token
  BY DEF Blamed
<1>3. \A x : x \in Blamed' <=>
        \E i \in 1..Len(events') : events'[i].code = "condition.invalid" /\ x = events'[i].token
  BY DEF Blamed
<1>4. \A i \in 1..Len(events) : i \in 1..Len(events')
  BY <1>1
<1>5. \A i \in 1..Len(new) : Len(events) + i \in 1..Len(events')
  BY <1>1
<1>6. Blamed \subseteq Blamed'
  BY <1>1, <1>2, <1>3, <1>4
<1>7. \A k \in 1..Len(new) : new[k].code = "condition.invalid" => new[k].token \in Blamed'
  BY <1>1, <1>3, <1>5
<1> QED
  BY <1>6, <1>7

\* Tokens with numbers of their own are shown as such.
LEMMA TokensOf ==
  /\ NumberInv => \A t \in queue : Tokens(queue \ {t}) = Tokens(queue) \ {<<t.node, t.id>>}
  /\ \A S, T : Tokens(S \cup T) = Tokens(S) \cup Tokens(T) /\ (S \subseteq T => Tokens(S) \subseteq Tokens(T))
  /\ Tokens({}) = {}
<1>1. ASSUME NumberInv, NEW t \in queue
      PROVE  Tokens(queue \ {t}) = Tokens(queue) \ {<<t.node, t.id>>}
  <2>1. \A u \in queue : <<u.node, u.id>> = <<t.node, t.id>> => u = t
    BY <1>1 DEF NumberInv
  <2> QED
    BY <2>1 DEF Tokens
<1>2. ASSUME NEW S, NEW T
      PROVE  Tokens(S \cup T) = Tokens(S) \cup Tokens(T) /\ (S \subseteq T => Tokens(S) \subseteq Tokens(T))
  BY DEF Tokens
<1>3. Tokens({}) = {}
  BY DEF Tokens
<1> QED
  BY <1>1, <1>2, <1>3

\* What a running call shows.
LEMMA Tracking ==
  ASSUME ReplayInv, status = "running"
  PROVE  Shown.runStatus = "running" /\ Tracks(Shown, Tokens(queue), {}, Tokens(Held), tokens, Blamed)
<1>1. Tracks(Shown, Tokens(queue), {}, ShownAs("waiting"), tokens, Blamed)
  BY DEF ReplayInv
<1>2. Tokens(Held) \subseteq ShownAs("waiting") /\ Blamed \subseteq Blamed
  BY DEF ReplayInv
<1> QED
  BY <1>1, <1>2, TracksWider DEF ReplayInv

\* What is tracked after a step of the call is the invariant of the next state.
LEMMA ReplayFollows ==
  ASSUME UNCHANGED scenario, NEW q, NEW h, NEW n, NEW b, NEW s, s = Shown', Tracks(s, q, {}, h, n, b), n = tokens',
         b \subseteq Blamed', s.runStatus = status',
         status' = "running" => q = Tokens(queue)' /\ Tokens(Held)' \subseteq h
  PROVE  ReplayInv'
<1>1. /\ VisitsIn(s, "queued") = q /\ h \subseteq VisitsIn(s, "waiting") /\ VisitsIn(s, "running") = {}
  BY DEF Tracks
<1>2. Tracks(s, VisitsIn(s, "queued"), {}, VisitsIn(s, "waiting"), n, Blamed')
  BY <1>1 DEF Tracks
<1>3. ShownAs("queued")' = VisitsIn(s, "queued") /\ ShownAs("waiting")' = VisitsIn(s, "waiting")
  BY DEF ShownAs, VisitsIn
<1>4. Tracks(Shown, ShownAs("queued"), {}, ShownAs("waiting"), tokens, Blamed)'
  BY <1>2, <1>3 DEF Tracks, IsReplay, Replays, VisitRecord, Nodes, VisitsIn
<1> QED
  BY <1>1, <1>3, <1>4 DEF ReplayInv

\* The frame of a token that stops at a join moves its visit out of the queue.
LEMMA StopIsShown ==
  ASSUME IInv, NumberInv, ReplayInv, NEW t \in queue, Take(t),
         NEW e \in EventRecord, e.node = t.node, e.token = t.id, Emit(<<e>>),
         e.type \in {"node.waiting", "node.skipped", "node.failed"},
         \A u \in Held' : u \in Held \/ (u = t /\ e.type = "node.waiting")
  PROVE  ReplayInv'
<1> DEFINE new == <<e>>
           state == NodeStateFromEvent(e.type)
           at == <<e.node, e.token>>
           held == Tokens(Held)
           h == IF state = "waiting" THEN held \cup {at} ELSE held
           q == Tokens(queue) \ {at}
<1>1. new \in Seq(EventRecord) /\ Len(new) = 1 /\ new[1] = e /\ events' = events \o new
  BY DEF Emit
<1>2. /\ status = "running" /\ status' = status /\ tokens' = tokens /\ queue' = queue \ {t} /\ UNCHANGED scenario
      /\ EventInv /\ Shown.runStatus = "running" /\ Tracks(Shown, Tokens(queue), {}, held, tokens, Blamed)
  BY Tracking DEF Take, playVars, IInv
<1> HIDE DEF new, held
<1>3. PICK play : /\ play[0] = Shown /\ play[Len(new)] = Shown'
                  /\ \A k \in 1..Len(new) : play[k] = ApplyFrame(play[k - 1], new[k])
  BY <1>1, <1>2, FramesFollow
<1>4. Shown' = ApplyFrame(Shown, e)
  BY <1>1, <1>3
<1>5. /\ state # "none" /\ state # "running" /\ e.type # "node.queued"
      /\ state = "waiting" <=> e.type = "node.waiting"
  BY DEF NodeStateFromEvent
<1>6. e.node \in Nodes /\ at \in Tokens(queue) \cup {}
  BY DEF EventRecord, Tokens
<1> HIDE DEF state, at
<1>7. Tracks(Shown', q, {}, h, tokens, Blamed) /\ Shown'.runStatus = Shown.runStatus
  <2>1. {} = IF state = "running" THEN {} \cup {at} ELSE {} \ {at}
    BY <1>5
  <2>2. /\ NodeStateFromEvent(e.type) # "none" /\ state = NodeStateFromEvent(e.type) /\ at = <<e.node, e.token>>
        /\ <<e.node, e.token>> \in Tokens(queue) \cup {}
    BY <1>5, <1>6 DEF state, at
  <2>3. h = IF state = "waiting" THEN held \cup {at} ELSE held
    OBVIOUS
  <2> HIDE DEF h
  <2> QED
    BY <1>2, <1>4, <1>5, <1>6, <2>1, <2>2, <2>3, TracksMove
<1>10. q = Tokens(queue)'
  <2>1. Tokens(queue)' = Tokens(queue \ {t})
    BY <1>2 DEF Tokens
  <2> QED
    BY <2>1, TokensOf DEF at
<1>11. Tokens(Held)' \subseteq h
  <2>1. \A u \in Held' : <<u.node, u.id>> \in h
    BY <1>5 DEF held, at, Tokens
  <2>2. Tokens(Held)' = {<<u.node, u.id>> : u \in Held'}
    BY DEF Tokens
  <2> QED
    BY <2>1, <2>2
<1>12. Blamed \subseteq Blamed'
  BY <1>1, <1>2, BlamedStay
<1> HIDE DEF q, h
<1> QED
  BY <1>2, <1>7, <1>10, <1>11, <1>12, ReplayFollows

\* A visit of a token, as it is shown when the node completed or failed.
ShowsVisit(r, s, q, h, n, b, at, type) ==
  /\ Tracks(s, q, {}, h, n, b) /\ s.runStatus = r.runStatus
  /\ type = "node.completed" => at \in VisitsIn(s, "completed")

\* The two frames of a visit take the token from the queue, and leave none running.
LEMMA VisitIsShown ==
  ASSUME NEW r, NEW q, NEW h, NEW n, NEW b, Tracks(r, q, {}, h, n, b), NEW at \in q,
         NEW first, NEW second, first.type = "node.started", second.type \in {"node.completed", "node.failed"},
         first.node \in Nodes, <<first.node, first.token>> = at, <<second.node, second.token>> = at,
         NEW s, s = ApplyFrame(ApplyFrame(r, first), second)
  PROVE  ShowsVisit(r, s, q \ {at}, h, n, b, at, second.type)
<1> DEFINE m == ApplyFrame(r, first)
           state == NodeStateFromEvent(second.type)
<1>1. /\ NodeStateFromEvent(first.type) = "running" /\ state # "none" /\ state # "running" /\ state # "waiting"
      /\ second.type = "node.completed" => state = "completed"
  BY DEF NodeStateFromEvent
<1>2. Tracks(m, q \ {at}, {at}, h, n, b) /\ m.runStatus = r.runStatus
  <2>1. {at} = (IF "running" = "running" THEN {} \cup {at} ELSE {} \ {at})
        /\ h = IF "running" = "waiting" THEN h \cup {at} ELSE h
    OBVIOUS
  <2>2. first.type # "node.queued" /\ <<first.node, first.token>> \in q \cup {}
    OBVIOUS
  <2> QED
    BY <1>1, <2>1, <2>2, TracksMove
<1>3. second.node \in Nodes
  OBVIOUS
<1> HIDE DEF m
<1>4. /\ Tracks(s, (q \ {at}) \ {at}, {}, h, n, b)
      /\ at \in VisitsIn(s, state) /\ s.runStatus = m.runStatus
  <2>1. <<second.node, second.token>> \in (q \ {at}) \cup {at} /\ s = ApplyFrame(m, second)
        /\ state = NodeStateFromEvent(second.type) /\ second.type # "node.queued"
    BY DEF m
  <2> HIDE DEF state
  <2>2. {} = (IF state = "running" THEN {at} \cup {at} ELSE {at} \ {at})
        /\ h = IF state = "waiting" THEN h \cup {at} ELSE h
    BY <1>1
  <2>3. NodeStateFromEvent(second.type) # "none"
    BY <1>1, <2>1
  <2> QED
    BY <1>2, <1>3, <2>1, <2>2, <2>3, TracksMove
<1>5. (q \ {at}) \ {at} = q \ {at}
  OBVIOUS
<1> HIDE DEF state
<1> QED
  BY <1>1, <1>2, <1>4, <1>5 DEF ShowsVisit

\* Fewer barriers hold fewer tokens.
LEMMA HeldTokensShrink ==
  ASSUME BarriersShrink
  PROVE  Tokens(Held)' \subseteq Tokens(Held)
<1>1. Held' \subseteq Held
  BY HeldShrinks
<1>2. Tokens(Held)' = Tokens(Held')
  BY DEF Tokens
<1> HIDE DEF Held
<1> QED
  BY <1>1, <1>2, TokensOf

\* After its first two frames a visit is shown, and no other token has moved.
LEMMA VisitTracked ==
  ASSUME IInv, NumberInv, ReplayInv, NEW t \in queue, NEW a, Visit(t, a),
         NEW new \in Seq(EventRecord), Emit(new), Len(new) \in Nat \ {0, 1}, new[1] = Started(a.token),
         new[2].node = a.token.node, new[2].token = a.token.id, new[2].type \in {"node.completed", "node.failed"}
  PROVE  /\ status' = "running" /\ UNCHANGED scenario /\ Tokens(Held)' \subseteq Tokens(Held)
         /\ a.token.node = t.node /\ a.token.id = t.id /\ t.node \in Nodes
         /\ \E play :
              /\ play[Len(new)] = Shown' /\ \A k \in 3..Len(new) : play[k] = ApplyFrame(play[k - 1], new[k])
              /\ Tracks(play[2], Tokens(queue) \ {<<t.node, t.id>>}, {}, Tokens(Held), tokens, Blamed')
              /\ play[2].runStatus = "running"
              /\ new[2].type = "node.completed" => <<t.node, t.id>> \in VisitsIn(play[2], "completed")
<1> DEFINE at == <<t.node, t.id>>
<1>1. /\ CallInv /\ TokenInv /\ BarrierInv /\ EventInv /\ events' = events \o new
  BY DEF IInv, Emit
<1>2. /\ a.token.id = t.id /\ a.token.node = t.node /\ t.node \in Nodes /\ status = "running" /\ UNCHANGED <<scenario, status>>
      /\ First(t)
  BY <1>1, VisitFrame
<1>3. Tokens(Held)' \subseteq Tokens(Held)
  <2>1. a \in Activations(t) /\ barriers' = a.barriers
    BY DEF Visit, Pass
  <2>2. BarriersShrink
    BY <1>1, <1>2, <2>1, ActivationFacts DEF BarriersShrink
  <2> QED
    BY <2>2, HeldTokensShrink
<1>4. Shown.runStatus = "running" /\ Tracks(Shown, Tokens(queue), {}, Tokens(Held), tokens, Blamed)
  BY <1>2, Tracking
<1>5. PICK play : /\ play[0] = Shown /\ play[Len(new)] = Shown'
                  /\ \A k \in 1..Len(new) : play[k] = ApplyFrame(play[k - 1], new[k])
  BY <1>1, FramesFollow
<1>6. play[1] = ApplyFrame(Shown, new[1]) /\ play[2] = ApplyFrame(play[1], new[2])
  <2>1. 1 \in 1..Len(new) /\ 2 \in 1..Len(new) /\ 1 - 1 = 0 /\ 2 - 1 = 1
    <3>1. \A m \in Nat \ {0, 1} : 1 \in 1..m /\ 2 \in 1..m /\ 1 - 1 = 0 /\ 2 - 1 = 1
      OBVIOUS
    <3> QED
      BY <3>1, Zenon
  <2>2. play[1] = ApplyFrame(play[1 - 1], new[1]) /\ play[2] = ApplyFrame(play[2 - 1], new[2])
    BY <1>5, <2>1
  <2> QED
    BY <1>5, <2>1, <2>2
<1>7. at \in Tokens(queue)
  BY DEF Tokens
<1>8. new[1].type = "node.started" /\ new[1].node = t.node /\ new[1].token = t.id
  <2>1. /\ Started(a.token).type = "node.started" /\ Started(a.token).node = a.token.node
        /\ Started(a.token).token = a.token.id
    BY DEF Started, Event
  <2> QED
    BY <1>2, <2>1
<1>9. /\ Tracks(play[2], Tokens(queue) \ {at}, {}, Tokens(Held), tokens, Blamed) /\ play[2].runStatus = "running"
      /\ new[2].type = "node.completed" => at \in VisitsIn(play[2], "completed")
  <2>1. <<new[1].node, new[1].token>> = at /\ <<new[2].node, new[2].token>> = at /\ new[1].node \in Nodes
        /\ play[2] = ApplyFrame(ApplyFrame(Shown, new[1]), new[2])
    BY <1>2, <1>6, <1>8
  <2> DEFINE x == new[1]
             y == new[2]
             s == play[2]
  <2>2. /\ x.type = "node.started" /\ y.type \in {"node.completed", "node.failed"}
        /\ <<x.node, x.token>> = at /\ <<y.node, y.token>> = at /\ x.node \in Nodes
        /\ s = ApplyFrame(ApplyFrame(Shown, x), y)
    BY <1>8, <2>1
  <2> HIDE DEF at, x, y, s
  <2>3. ShowsVisit(Shown, s, Tokens(queue) \ {at}, Tokens(Held), tokens, Blamed, at, y.type)
    BY <1>4, <1>7, <2>2, VisitIsShown
  <2> QED
    BY <1>4, <2>3 DEF s, y, ShowsVisit
<1>10. Tracks(play[2], Tokens(queue) \ {at}, {}, Tokens(Held), tokens, Blamed')
  <2>1. Blamed \subseteq Blamed' /\ Tokens(Held) \in SUBSET Tokens(Held)
    BY <1>1, BlamedStay
  <2> QED
    BY <1>9, <2>1, TracksWider
<1>11. \A k \in 3..Len(new) : play[k] = ApplyFrame(play[k - 1], new[k])
  BY <1>5
<1> HIDE DEF at
<1> QED
  BY <1>2, <1>3, <1>5, <1>9, <1>10, <1>11 DEF at

\* A visit that ends its branch is shown as completed or failed.
LEMMA EndIsShown ==
  ASSUME IInv, NumberInv, ReplayInv, NEW t \in queue, NEW a, Visit(t, a), queue' = queue \ {t}, UNCHANGED tokens,
         NEW second \in EventRecord, Emit(<<Started(a.token), second>>),
         second.node = a.token.node, second.token = a.token.id, second.type \in {"node.completed", "node.failed"}
  PROVE  ReplayInv'
<1> DEFINE new == <<Started(a.token), second>>
           at == <<t.node, t.id>>
<1>1. Started(a.token) \in EventRecord
  BY VisitEvents DEF IInv
<1>2. /\ new \in Seq(EventRecord) /\ Len(new) = 2 /\ new[1] = Started(a.token) /\ new[2] = second /\ Emit(new)
  BY <1>1
<1> HIDE DEF new
<1>3. Len(new) \in Nat \ {0, 1}
  BY <1>2
<1>4. /\ status' = "running" /\ UNCHANGED scenario /\ Tokens(Held)' \subseteq Tokens(Held)
      /\ \E play : /\ play[Len(new)] = Shown'
                   /\ Tracks(play[2], Tokens(queue) \ {<<t.node, t.id>>}, {}, Tokens(Held), tokens, Blamed')
                   /\ play[2].runStatus = "running"
  BY <1>2, <1>3, VisitTracked
<1>5. Tracks(Shown', Tokens(queue) \ {at}, {}, Tokens(Held), tokens, Blamed') /\ Shown'.runStatus = "running"
  BY <1>2, <1>4
<1>6. Tokens(queue)' = Tokens(queue) \ {at}
  <2>1. Tokens(queue)' = Tokens(queue \ {t})
    BY DEF Tokens
  <2> QED
    BY <2>1, TokensOf
<1> HIDE DEF at
<1>7. Blamed' \subseteq Blamed'
  OBVIOUS
<1> QED
  BY <1>4, <1>5, <1>6, <1>7, ReplayFollows

\* The replays of the frames from i to j.
PlaysOn(play, new, i, j) == \A k \in i..j : play[k] = ApplyFrame(play[k - 1], new[k])

\* Past the first two frames: m edges, each followed by the child it queues, numbered past n.
Crosses(new, m, n) ==
  \A i \in 1..m : /\ new[2 * i + 1].type = "edge.traversed" /\ new[2 * i + 2].type = "node.queued"
                   /\ new[2 * i + 2].node \in Nodes /\ new[2 * i + 2].token = n + i
Crossed(new, m) == {<<new[2 * i + 2].node, new[2 * i + 2].token>> : i \in 1..m}

\* Edges that are traversed, each with the child it queues, show the children as queued.
LEMMA CrossingsAreShown ==
  ASSUME NEW play, NEW new, NEW m \in Nat, NEW q, NEW h, NEW n \in Nat, NEW b,
         Tracks(play[2], q, {}, h, n, b), play[2].runStatus = "running",
         PlaysOn(play, new, 3, 2 * m + 2), Crosses(new, m, n),
         NEW s, s = play[2 * m + 2], NEW top, top = n + m
  PROVE  Tracks(s, q \cup Crossed(new, m), {}, h, top, b) /\ s.runStatus = "running"
<1> DEFINE At(i) == <<new[2 * i + 2].node, new[2 * i + 2].token>>
           Good(j) == /\ Tracks(play[2 * j + 2], q \cup {At(i) : i \in 1..j}, {}, h, n + j, b)
                      /\ play[2 * j + 2].runStatus = "running"
           T == {j \in 0..m : ~Good(j)}
<1>1. SUFFICES ASSUME T # {} PROVE FALSE
  <2>1. m \in 0..m /\ Crossed(new, m) = {At(i) : i \in 1..m}
    BY DEF Crossed
  <2>2. T = {} => Good(m)
    BY <2>1
  <2> QED
    BY <2>1, <2>2
<1>2. T \in SUBSET Nat
  OBVIOUS
<1>3. PICK j \in T : \A i \in T : j <= i
  BY <1>1, <1>2, LeastNumber, Zenon
<1>4. Good(0)
  <2>1. q \cup {At(i) : i \in 1..0} = q
    OBVIOUS
  <2>2. 2 * 0 + 2 = 2 /\ n + 0 = n
    OBVIOUS
  <2> HIDE DEF At
  <2> QED
    BY <2>1, <2>2
<1>5. j \in 1..m /\ j - 1 \in 0..m /\ j - 1 \notin T
  <2>1. j \in 0..m /\ ~Good(j)
    BY <1>3
  <2>2. j # 0
    BY <1>4, <2>1
  <2> HIDE DEF T, Good
  <2>3. j - 1 \in 0..m /\ ~(j <= j - 1) /\ j \in 1..m
    BY <2>1, <2>2
  <2> QED
    BY <1>3, <2>3
<1>6. Good(j - 1)
  BY <1>5
<1>7. /\ 2 * (j - 1) + 2 = 2 * j /\ 2 * j + 1 \in 3..2 * m + 2 /\ (2 * j + 1) - 1 = 2 * j
      /\ 2 * j + 2 \in 3..2 * m + 2 /\ (2 * j + 2) - 1 = 2 * j + 1 /\ n + (j - 1) \in Nat /\ (n + (j - 1)) + 1 = n + j
  BY <1>5
<1> DEFINE before == play[2 * j]
           between == play[2 * j + 1]
           after == play[2 * j + 2]
           edge == new[2 * j + 1]
           child == new[2 * j + 2]
           shown == q \cup {At(i) : i \in 1..(j - 1)}
<1>8. between = ApplyFrame(before, edge) /\ after = ApplyFrame(between, child)
  BY <1>7 DEF PlaysOn
<1>9. Tracks(before, shown, {}, h, n + (j - 1), b) /\ before.runStatus = "running"
  BY <1>6, <1>7
<1>10. /\ edge.type = "edge.traversed" /\ child.type = "node.queued" /\ child.node \in Nodes
       /\ child.token = (n + (j - 1)) + 1
  BY <1>5, <1>7 DEF Crosses
<1>11. q \cup {At(i) : i \in 1..j} = shown \cup {<<child.node, child.token>>}
  <2>1. 1..j = 1..(j - 1) \cup {j} /\ At(j) = <<child.node, child.token>>
    BY <1>5
  <2> HIDE DEF At, child
  <2> QED
    BY <2>1
<1> HIDE DEF before, between, after, edge, child, shown
<1>12. NodeStateFromEvent(edge.type) = "none" /\ RunStateFromEvent(edge.type, "running") = "running"
  BY <1>10 DEF NodeStateFromEvent, RunStateFromEvent
<1>13. Tracks(between, shown, {}, h, n + (j - 1), b) /\ between.runStatus = "running"
  BY <1>8, <1>9, <1>12, TracksSilent
<1>14. /\ Tracks(after, shown \cup {<<child.node, child.token>>}, {}, h, (n + (j - 1)) + 1, b)
       /\ after.runStatus = "running"
  <2> DEFINE last == n + (j - 1)
  <2>1. /\ Tracks(between, shown, {}, h, last, b)
        /\ child.node \in Nodes /\ child.token = last + 1 /\ child.type = "node.queued"
    BY <1>10, <1>13
  <2> HIDE DEF last, T, Good, At
  <2>2. /\ Tracks(ApplyFrame(between, child), shown \cup {<<child.node, child.token>>}, {}, h, child.token, b)
        /\ ApplyFrame(between, child).runStatus = between.runStatus
    BY ONLY <2>1, TracksQueue
  <2>3. child.token = (n + (j - 1)) + 1
    BY <2>1 DEF last
  <2> QED
    BY <1>8, <1>13, <2>2, <2>3
<1>15. Good(j)
  BY <1>7, <1>11, <1>14 DEF after
<1> QED
  BY <1>3, <1>15

\* Failures of no token, such as those of the joins that still wait, change no token.
LEMMA DeadlocksAreShown ==
  ASSUME NEW play, NEW new, NEW m \in Nat, NEW q, NEW h, NEW n, NEW b,
         Tracks(play[0], q, {}, h, n, b), PlaysOn(play, new, 1, m),
         \A k \in 1..m : new[k].type = "node.failed" /\ new[k].node \in Nodes /\ new[k].token = 0
  PROVE  Tracks(play[m], q, {}, h, n, b)
<1> DEFINE T == {k \in 0..m : ~Tracks(play[k], q, {}, h, n, b)}
<1>1. SUFFICES ASSUME T # {} PROVE FALSE
  <2>1. m \in 0..m
    OBVIOUS
  <2> QED
    BY <2>1
<1>2. T \in SUBSET Nat
  OBVIOUS
<1>3. PICK k \in T : \A i \in T : k <= i
  BY <1>1, <1>2, LeastNumber, Zenon
<1>4. k \in 1..m /\ k - 1 \in 0..m /\ k - 1 \notin T
  BY <1>3
<1> DEFINE before == play[k - 1]
           frame == new[k]
<1>5. Tracks(before, q, {}, h, n, b)
  BY <1>4
<1>6. play[k] = ApplyFrame(before, frame) /\ frame.type = "node.failed" /\ frame.node \in Nodes /\ frame.token = 0
  BY <1>4 DEF PlaysOn
<1> HIDE DEF before, frame
<1>7. Tracks(play[k], q, {}, h, n, b)
  <2>1. /\ frame.token = 0 \/ <<frame.node, frame.token>> \in VisitsIn(before, "completed")
        /\ frame.token # 0 => frame.token \in b
    BY <1>6
  <2>2. Tracks(ApplyFrame(before, frame), q, {}, h, n, b)
    BY <1>5, <1>6, <2>1, TracksAgain
  <2> QED
    BY <1>6, <2>2
<1> QED
  BY <1>3, <1>7

\* The five ways in which a token stops at a join.
LEMMA StopsAreShown ==
  ASSUME IInv, NumberInv, ReplayInv, [Next]_vars,
         Uncorrelated \/ AnyAlreadyResolved \/ DuplicateBranch \/ AwaitSiblings \/ MergeConflict
  PROVE  ReplayInv'
<1>1. ASSUME NEW t, Take(t)
      PROVE  t.node \in Nodes /\ t.id \in Nat /\ t.time \in Nat /\ Arrival(t).time \in Nat
  BY <1>1, ArrivalTime DEF Take, First, IInv, TokenInv, IsToken
<1>2. ASSUME NEW t \in queue, Take(t), NEW type \in {"node.waiting", "node.skipped", "node.failed"},
             NEW code \in Codes, NEW time \in Nat, Emit(<<Event(type, time, t, code)>>),
             \A u \in Held' : u \in Held \/ (u = t /\ type = "node.waiting")
      PROVE  ReplayInv'
  <2> DEFINE e == Event(type, time, t, code)
  <2>1. type \in Journal!PlannedTypes
    BY PassingTypes
  <2>2. e \in EventRecord /\ e.token = t.id /\ e.node = t.node /\ e.type = type
    BY <1>1, <1>2, <2>1 DEF Event, EventRecord
  <2>3. Emit(<<e>>)
    BY <1>2
  <2> HIDE DEF e
  <2> QED
    BY <1>2, <2>2, <2>3, StopIsShown
<1>3. {"", "join.uncorrelated", "join.any_already_resolved", "join.all_duplicate_branch",
       "context.merge_conflict"} \subseteq Codes
  BY DEF Codes
<1>4. ~AwaitSiblings => \A u \in Held' : u \in Held
  BY BarriersOfStep, HeldShrinks
<1>5. CASE AwaitSiblings
  <2>1. PICK t \in queue : /\ Take(t) /\ Emit(<<Event("node.waiting", t.time, t, "")>>)
                           /\ Held' \subseteq Held \cup {t}
    BY <1>5, AwaitingHolds
  <2>2. \A u \in Held' : u \in Held \/ (u = t /\ "node.waiting" = "node.waiting")
    BY <2>1
  <2> QED
    BY <1>1, <1>2, <1>3, <2>1, <2>2
<1>6. CASE ~AwaitSiblings /\ Uncorrelated
  <2>1. PICK t \in queue : Take(t) /\ Emit(<<Event("node.failed", t.time, t, "join.uncorrelated")>>)
    BY <1>6 DEF Uncorrelated
  <2> QED
    BY <1>1, <1>2, <1>3, <1>4, <1>6, <2>1
<1>7. CASE ~AwaitSiblings /\ AnyAlreadyResolved
  <2>1. PICK t \in queue :
          Take(t) /\ Emit(<<Event("node.skipped", t.time, t, "join.any_already_resolved")>>)
    BY <1>7 DEF AnyAlreadyResolved
  <2> QED
    BY <1>1, <1>2, <1>3, <1>4, <1>7, <2>1
<1>8. CASE ~AwaitSiblings /\ DuplicateBranch
  <2>1. PICK t \in queue :
          Take(t) /\ Emit(<<Event("node.skipped", t.time, t, "join.all_duplicate_branch")>>)
    BY <1>8 DEF DuplicateBranch
  <2> QED
    BY <1>1, <1>2, <1>3, <1>4, <1>8, <2>1
<1>9. CASE ~AwaitSiblings /\ MergeConflict
  <2>1. PICK t \in queue :
          Take(t) /\ Emit(<<Event("node.failed", Arrival(t).time, t, "context.merge_conflict")>>)
    BY <1>9 DEF MergeConflict
  <2> QED
    BY <1>1, <1>2, <1>3, <1>4, <1>9, <2>1
<1> QED
  BY <1>5, <1>6, <1>7, <1>8, <1>9

\* The three visits that queue nothing.
LEMMA VisitsAreShown ==
  ASSUME IInv, NumberInv, ReplayInv, FailVisit \/ ReachEnd \/ InvalidChoice
  PROVE  ReplayInv'
<1>1. CallInv /\ TokenInv /\ BarrierInv /\ EventInv
  BY DEF IInv
<1>2. CASE FailVisit
  <2>1. PICK t, a : /\ t \in queue /\ Visit(t, a) /\ queue' = queue \ {t} /\ tokens' = tokens
                    /\ Emit(<<Started(a.token),
                              Event("node.failed", a.token.time, a.token, Failure(a.token))>>)
    BY <1>2 DEF FailVisit
  <2> DEFINE second == Event("node.failed", a.token.time, a.token, Failure(a.token))
  <2>2. Failure(a.token) \in Codes /\ a.token.time \in Nat
    BY <1>1, <2>1, VisitFrame DEF Failure, Codes
  <2>3. second \in EventRecord
    BY <1>1, <2>1, <2>2, VisitEvents
  <2>4. second.node = a.token.node /\ second.token = a.token.id /\ second.type = "node.failed"
    BY DEF Event
  <2>5. Emit(<<Started(a.token), second>>)
    BY <2>1
  <2> HIDE DEF second
  <2> QED
    BY <2>1, <2>3, <2>4, <2>5, EndIsShown
<1>3. CASE ReachEnd
  <2>1. PICK t, a : /\ t \in queue /\ Visit(t, a) /\ queue' = queue \ {t} /\ tokens' = tokens
                    /\ Emit(<<Started(a.token), Completed(a.token)>>)
    BY <1>3 DEF ReachEnd
  <2> DEFINE second == Completed(a.token)
  <2>2. second \in EventRecord
    BY <1>1, <2>1, VisitEvents
  <2>3. second.node = a.token.node /\ second.token = a.token.id /\ second.type = "node.completed"
    BY DEF Completed, Event
  <2>4. Emit(<<Started(a.token), second>>)
    BY <2>1
  <2> HIDE DEF second
  <2> QED
    BY <2>1, <2>2, <2>3, <2>4, EndIsShown
<1>4. CASE InvalidChoice
  <2>1. PICK t, a : /\ t \in queue /\ Visit(t, a) /\ queue' = queue \ {t} /\ tokens' = tokens
                    /\ Emit(<<Started(a.token), Completed(a.token),
                              Event("node.failed", Completed(a.token).time, a.token,
                                    "condition.invalid")>>)
    BY <1>4 DEF InvalidChoice
  <2> DEFINE done == Completed(a.token)
             refused == Event("node.failed", Completed(a.token).time, a.token, "condition.invalid")
             new == <<Started(a.token), done, refused>>
             at == <<t.node, t.id>>
  <2>2. Started(a.token) \in EventRecord /\ done \in EventRecord /\ refused \in EventRecord
    BY <1>1, <2>1, VisitEvents DEF Codes
  <2>3. /\ done.node = a.token.node /\ done.token = a.token.id /\ done.type = "node.completed"
        /\ refused.node = a.token.node /\ refused.token = a.token.id /\ refused.type = "node.failed"
        /\ refused.code = "condition.invalid"
    BY DEF Completed, Event
  <2>4. Emit(new)
    BY <2>1
  <2> HIDE DEF done, refused
  <2>5. /\ new \in Seq(EventRecord) /\ Len(new) = 3 /\ new[1] = Started(a.token) /\ new[2] = done
        /\ new[3] = refused /\ Len(new) \in Nat \ {0, 1}
    BY <2>2
  <2> HIDE DEF new
  <2>6. /\ status' = "running" /\ UNCHANGED scenario /\ Tokens(Held)' \subseteq Tokens(Held)
        /\ a.token.node = t.node /\ a.token.id = t.id /\ t.node \in Nodes
        /\ \E play : /\ play[Len(new)] = Shown' /\ \A k \in 3..Len(new) : play[k] = ApplyFrame(play[k - 1], new[k])
                     /\ Tracks(play[2], Tokens(queue) \ {at}, {}, Tokens(Held), tokens, Blamed')
                     /\ play[2].runStatus = "running"
                     /\ new[2].type = "node.completed" => at \in VisitsIn(play[2], "completed")
    BY <2>1, <2>3, <2>4, <2>5, VisitTracked
  <2>7. PICK r : /\ Shown' = ApplyFrame(r, refused)
                 /\ Tracks(r, Tokens(queue) \ {at}, {}, Tokens(Held), tokens, Blamed')
                 /\ r.runStatus = "running" /\ at \in VisitsIn(r, "completed")
    <3>1. 3 \in 3..Len(new) /\ 3 - 1 = 2
      BY <2>5
    <3> QED
      BY <2>3, <2>5, <2>6, <3>1
  <2>8. refused.node \in Nodes /\ <<refused.node, refused.token>> = at /\ refused.token \in Blamed'
    <3>1. events' = events \o new /\ 3 \in 1..Len(new)
      BY <2>4, <2>5 DEF Emit
    <3>2. new[3].code = "condition.invalid" => new[3].token \in Blamed'
      BY <1>1, <2>5, <3>1, BlamedStay
    <3> QED
      BY <2>3, <2>5, <2>6, <3>2
  <2> HIDE DEF at
  <2>9. /\ Tracks(ApplyFrame(r, refused), Tokens(queue) \ {at}, {}, Tokens(Held), tokens, Blamed')
        /\ ApplyFrame(r, refused).runStatus = r.runStatus
    BY <2>3, <2>7, <2>8, TracksAgain
  <2>10. Tokens(queue)' = Tokens(queue) \ {at}
    <3>1. Tokens(queue)' = Tokens(queue \ {t})
      BY <2>1 DEF Tokens
    <3> QED
      BY <2>1, <3>1, TokensOf DEF at
  <2>11. Blamed' \subseteq Blamed' /\ tokens = tokens'
    BY <2>1
  <2> QED
    BY <2>6, <2>7, <2>9, <2>10, <2>11, ReplayFollows
<1> QED
  BY <1>2, <1>3, <1>4

\* The frames of the edges that a visit traverses, and of the children it queues.
LEMMA CrossingFrames ==
  ASSUME CallInv, TokenInv, BarrierInv, NEW t, NEW a, Visit(t, a),
         NEW order \in InOrder(Choice(a.token).edges), NEW i \in 1..Len(order)
  PROVE  LET edge == Crossings(a.token, order)[2 * i - 1]
             child == Crossings(a.token, order)[2 * i]
         IN  /\ edge.type = "edge.traversed" /\ child.type = "node.queued"
             /\ child.node = Child(a.token, order, i).node /\ child.token = tokens + i
             /\ child.node \in Nodes
<1> DEFINE n == 2 * Len(order)
           time == Completed(a.token).time
           entry(k) == IF k % 2 = 1 THEN Event("edge.traversed", time, a.token, "")
                       ELSE Event("node.queued", time, Child(a.token, order, k \div 2), "")
           born == Child(a.token, order, i)
<1>1. Len(order) \in Nat /\ born.node \in Nodes /\ born.id = tokens + i
  <2>1. born.id = tokens + i
    BY DEF Child
  <2> QED
    BY <2>1, ChildrenOfVisit DEF IsToken
<1>2. Crossings(a.token, order) = [k \in 1..n |-> entry(k)]
  BY DEF Crossings
<1>3. /\ 2 * i - 1 \in 1..n /\ (2 * i - 1) % 2 = 1 /\ 2 * i \in 1..n /\ (2 * i) % 2 # 1 /\ (2 * i) \div 2 = i
  BY <1>1
<1>4. entry(2 * i - 1) = Event("edge.traversed", time, a.token, "")
  BY <1>3
<1>5. entry(2 * i) = Event("node.queued", time, born, "")
  BY <1>3
<1> HIDE DEF entry, born, n
<1>6. /\ Crossings(a.token, order)[2 * i - 1] = Event("edge.traversed", time, a.token, "")
      /\ Crossings(a.token, order)[2 * i] = Event("node.queued", time, born, "")
  BY <1>2, <1>3, <1>4, <1>5
<1>7. /\ Event("edge.traversed", time, a.token, "").type = "edge.traversed"
      /\ Event("node.queued", time, born, "").type = "node.queued"
      /\ Event("node.queued", time, born, "").node = born.node
      /\ Event("node.queued", time, born, "").token = born.id
  BY DEF Event
<1> QED
  BY <1>1, <1>6, <1>7 DEF born

\* A visit that goes on queues its children, and they are shown.
LEMMA TraverseIsShown ==
  ASSUME IInv, NumberInv, ReplayInv, Traverse
  PROVE  ReplayInv'
<1>1. CallInv /\ TokenInv /\ BarrierInv /\ EventInv
  BY DEF IInv
<1>2. PICK t, a : \E order \in InOrder(Choice(a.token).edges) :
        /\ t \in queue /\ Visit(t, a) /\ tokens' = tokens + Len(order)
        /\ queue' = (queue \ {t}) \cup {Child(a.token, order, i) : i \in 1..Len(order)}
        /\ Emit(<<Started(a.token), Completed(a.token)>> \o Crossings(a.token, order))
  BY DEF Traverse
<1>3. PICK order \in InOrder(Choice(a.token).edges) :
        /\ t \in queue /\ Visit(t, a) /\ tokens' = tokens + Len(order)
        /\ queue' = (queue \ {t}) \cup {Child(a.token, order, i) : i \in 1..Len(order)}
        /\ Emit(<<Started(a.token), Completed(a.token)>> \o Crossings(a.token, order))
  BY <1>2
<1> DEFINE m == Len(order)
           crossed == Crossings(a.token, order)
           visited == <<Started(a.token), Completed(a.token)>>
           new == visited \o crossed
           at == <<t.node, t.id>>
           children == {Child(a.token, order, i) : i \in 1..m}
<1>4. m \in Nat /\ tokens \in Nat
  BY <1>1, <1>3, ChildrenOfVisit DEF TokenInv
<1>5. crossed \in Seq(EventRecord) /\ Len(crossed) = 2 * m
  BY <1>1, <1>3, CrossingEvents
<1>6. /\ visited \in Seq(EventRecord) /\ Len(visited) = 2 /\ visited[1] = Started(a.token)
      /\ visited[2] = Completed(a.token)
  BY <1>1, <1>3, VisitEvents
<1>7. Emit(new)
  BY <1>3
<1>8. \A i \in 1..m : /\ crossed[2 * i - 1].type = "edge.traversed" /\ crossed[2 * i].type = "node.queued"
                      /\ crossed[2 * i].node = Child(a.token, order, i).node
                      /\ crossed[2 * i].token = tokens + i /\ crossed[2 * i].node \in Nodes
  BY <1>1, <1>3, CrossingFrames
<1>9. \A i \in 1..m : Child(a.token, order, i).id = tokens + i
  BY DEF Child
<1> HIDE DEF crossed, visited, m
<1>10. /\ new \in Seq(EventRecord) /\ Len(new) = 2 * m + 2 /\ new[1] = Started(a.token) /\ new[2] = Completed(a.token)
       /\ \A i \in 1..2 * m : new[i + 2] = crossed[i]
  <2>1. /\ new \in Seq(EventRecord) /\ Len(new) = Len(visited) + Len(crossed)
        /\ \A i \in 1..Len(visited) + Len(crossed) :
             new[i] = IF i <= Len(visited) THEN visited[i] ELSE crossed[i - Len(visited)]
    BY <1>5, <1>6, ConcatProperties, Zenon
  <2>2. /\ new \in Seq(EventRecord) /\ Len(new) = 2 + 2 * m
        /\ \A i \in 1..2 + 2 * m : new[i] = IF i <= 2 THEN visited[i] ELSE crossed[i - 2]
    <3> HIDE DEF new
    <3> QED
      BY <1>5, <1>6, <2>1
  <2> HIDE DEF new
  <2>3. new[1] = visited[1] /\ new[2] = visited[2]
    BY <1>4, <2>2
  <2>4. ASSUME NEW i \in 1..2 * m
        PROVE  new[i + 2] = crossed[i]
    <3>1. i + 2 \in 1..2 + 2 * m /\ ~(i + 2 <= 2) /\ (i + 2) - 2 = i
      BY <1>4
    <3> QED
      BY <2>2, <3>1
  <2> QED
    BY <1>4, <1>6, <2>2, <2>3, <2>4
<1> HIDE DEF new
<1>11. \A i \in 1..m : /\ new[2 * i + 1].type = "edge.traversed" /\ new[2 * i + 2].type = "node.queued"
                       /\ new[2 * i + 2].node \in Nodes /\ new[2 * i + 2].token = tokens + i
                       /\ new[2 * i + 2].node = Child(a.token, order, i).node
  <2> SUFFICES ASSUME NEW i \in 1..m
               PROVE  /\ new[2 * i + 1].type = "edge.traversed" /\ new[2 * i + 2].type = "node.queued"
                      /\ new[2 * i + 2].node \in Nodes /\ new[2 * i + 2].token = tokens + i
                      /\ new[2 * i + 2].node = Child(a.token, order, i).node
    OBVIOUS
  <2>1. 2 * i - 1 \in 1..2 * m /\ 2 * i \in 1..2 * m /\ (2 * i - 1) + 2 = 2 * i + 1
    BY <1>4
  <2>2. new[2 * i + 1] = crossed[2 * i - 1] /\ new[2 * i + 2] = crossed[2 * i]
    BY <1>10, <2>1
  <2> QED
    BY <1>8, <2>2
<1>12. Len(new) \in Nat \ {0, 1}
  BY <1>4, <1>10
<1>13. /\ Completed(a.token).node = a.token.node /\ Completed(a.token).token = a.token.id
       /\ Completed(a.token).type = "node.completed"
  BY DEF Completed, Event
<1>14. /\ status' = "running" /\ UNCHANGED scenario /\ Tokens(Held)' \subseteq Tokens(Held)
       /\ \E play : /\ play[Len(new)] = Shown' /\ \A k \in 3..Len(new) : play[k] = ApplyFrame(play[k - 1], new[k])
                    /\ Tracks(play[2], Tokens(queue) \ {at}, {}, Tokens(Held), tokens, Blamed')
                    /\ play[2].runStatus = "running"
  <2>1. /\ new[2].node = a.token.node /\ new[2].token = a.token.id
        /\ new[2].type \in {"node.completed", "node.failed"}
    BY <1>10, <1>13
  <2>2. /\ t \in queue /\ Visit(t, a) /\ new \in Seq(EventRecord) /\ new[1] = Started(a.token)
    BY <1>3, <1>10
  <2>3. IInv /\ NumberInv /\ ReplayInv /\ Emit(new) /\ Len(new) \in Nat \ {0, 1}
    BY <1>7, <1>12
  <2>4. /\ status' = "running" /\ UNCHANGED scenario /\ Tokens(Held)' \subseteq Tokens(Held)
        /\ \E play :
             /\ play[Len(new)] = Shown' /\ \A k \in 3..Len(new) : play[k] = ApplyFrame(play[k - 1], new[k])
             /\ Tracks(play[2], Tokens(queue) \ {<<t.node, t.id>>}, {}, Tokens(Held), tokens, Blamed')
             /\ play[2].runStatus = "running"
             /\ new[2].type = "node.completed" => <<t.node, t.id>> \in VisitsIn(play[2], "completed")
    BY ONLY <2>1, <2>2, <2>3, VisitTracked, SMTT(30)
  <2> QED
    BY <2>4
<1>15. PICK play : /\ play[2 * m + 2] = Shown'
                   /\ \A k \in 3..2 * m + 2 : play[k] = ApplyFrame(play[k - 1], new[k])
                   /\ Tracks(play[2], Tokens(queue) \ {at}, {}, Tokens(Held), tokens, Blamed')
                   /\ play[2].runStatus = "running"
  BY <1>10, <1>14
<1> DEFINE q == Tokens(queue) \ {at}
           shown == Crossed(new, m)
<1> HIDE DEF at
<1>16. Tracks(Shown', q \cup shown, {}, Tokens(Held), tokens', Blamed') /\ Shown'.runStatus = "running"
  <2> HIDE DEF q
  <2>1. Tracks(play[2], q, {}, Tokens(Held), tokens, Blamed')
    BY <1>15 DEF q
  <2>2. Crosses(new, m, tokens)
    BY <1>11 DEF Crosses
  <2>3. PlaysOn(play, new, 3, 2 * m + 2)
    BY <1>15 DEF PlaysOn
  <2>4. tokens' = tokens + m
    BY <1>3 DEF m
  <2>5. play[2].runStatus = "running" /\ Shown' = play[2 * m + 2]
    BY <1>15
  <2> QED
    BY <1>4, <2>1, <2>2, <2>3, <2>4, <2>5, CrossingsAreShown
<1>17. Tokens(queue)' = q \cup shown
  <2>1. Tokens(children) = shown
    <3>1. Tokens(children) = {<<Child(a.token, order, i).node, Child(a.token, order, i).id>> : i \in 1..m}
      BY DEF Tokens
    <3> QED
      BY <1>9, <1>11, <3>1 DEF Crossed
  <2>2. Tokens(queue)' = Tokens((queue \ {t}) \cup children)
    <3>1. queue' = (queue \ {t}) \cup children
      BY <1>3 DEF m
    <3> HIDE DEF children
    <3> QED
      BY <3>1 DEF Tokens
  <2>3. Tokens(queue \ {t}) = q
    BY <1>3, TokensOf DEF at
  <2> HIDE DEF children, shown, q
  <2> QED
    BY <2>1, <2>2, <2>3, TokensOf
<1> HIDE DEF q, shown
<1>18. Blamed' \subseteq Blamed'
  OBVIOUS
<1> QED
  BY <1>14, <1>16, <1>17, <1>18, ReplayFollows

\* A limit is shown as a failure of the run.
LEMMA ExceedLimitIsShown ==
  ASSUME IInv, ReplayInv, ExceedLimit
  PROVE  ReplayInv'
<1>1. PICK t, a :
        /\ Pass(t, a) /\ status' = "failed" /\ UNCHANGED playVars
        /\ runCode' = IF steps < scenario.maxSteps THEN "run.max_visits_per_node" ELSE "run.max_steps"
        /\ Emit(<<Event("run.limit_exceeded", a.token.time, a.token, runCode')>>)
  BY DEF ExceedLimit
<1>2. /\ status = "running" /\ UNCHANGED scenario /\ tokens' = tokens /\ EventInv /\ runCode' \in Codes
      /\ a.token.node \in Nodes /\ a.token.id \in Nat /\ a.token.time \in Nat
  BY <1>1, ActivationFacts DEF Pass, First, IInv, TokenInv, IsToken, playVars, Codes
<1> DEFINE e == Event("run.limit_exceeded", a.token.time, a.token, runCode')
           new == <<e>>
<1>3. e \in EventRecord /\ e.type = "run.limit_exceeded"
  BY <1>2, PassingTypes DEF Event, EventRecord
<1>4. events' = events \o new
  BY <1>1 DEF Emit
<1> HIDE DEF e
<1>5. new \in Seq(EventRecord) /\ Len(new) = 1 /\ new[1] = e
  BY <1>3
<1> HIDE DEF new
<1>6. PICK play : /\ play[0] = Shown /\ play[Len(new)] = Shown'
                  /\ \A k \in 1..Len(new) : play[k] = ApplyFrame(play[k - 1], new[k])
  BY <1>2, <1>4, <1>5, FramesFollow
<1>7. Shown' = ApplyFrame(Shown, e)
  BY <1>5, <1>6
<1>8. NodeStateFromEvent(e.type) = "none" /\ \A now : RunStateFromEvent(e.type, now) = "failed"
  BY <1>3 DEF NodeStateFromEvent, RunStateFromEvent
<1>9. Tracks(Shown, Tokens(queue), {}, Tokens(Held), tokens, Blamed)
  BY <1>2, Tracking
<1>10. /\ Tracks(ApplyFrame(Shown, e), Tokens(queue), {}, Tokens(Held), tokens, Blamed)
       /\ ApplyFrame(Shown, e).runStatus = RunStateFromEvent(e.type, Shown.runStatus)
  BY <1>8, <1>9, TracksSilent
<1>11. Blamed \subseteq Blamed'
  BY <1>2, <1>4, <1>5, BlamedStay
<1> QED
  BY <1>1, <1>2, <1>7, <1>8, <1>10, <1>11, ReplayFollows

\* The joins that still wait fail outside all visits, and the verdict is the status shown.
LEMMA FinishIsShown ==
  ASSUME IInv, ReplayInv, Finish
  PROVE  ReplayInv'
<1> DEFINE verdict(last) ==
             [type |-> IF CodeAtEnd = "" THEN "run.completed" ELSE "run.failed",
              time |-> last, node |-> scenario.trigger, token |-> 0, code |-> CodeAtEnd]
           stuck(order) == [i \in 1..Len(order) |-> Deadlock(order[i])]
<1>1. PICK last \in Times, order \in BarrierOrders :
        /\ status = "running" /\ queue = {} /\ tokens' = tokens /\ UNCHANGED scenario
        /\ status' = IF CodeAtEnd = "" THEN "completed" ELSE "failed"
        /\ Emit(stuck(order) \o <<verdict(last)>>)
  BY DEF Finish, playVars
<1>2. EventInv /\ CodeAtEnd \in Codes
  BY DEF CodeAtEnd, IInv, CallInv, Codes
<1>3. last \in Nat
  <2>1. PICK i \in 1..Len(events) : last = events[i].time
    BY <1>1 DEF Times
  <2>2. events[i] \in EventRecord
    BY <1>2 DEF EventInv
  <2> QED
    BY <2>1, <2>2 DEF EventRecord
<1>4. verdict(last) \in EventRecord /\ verdict(last).type = IF CodeAtEnd = "" THEN "run.completed" ELSE "run.failed"
  BY <1>2, <1>3, ScenarioFacts, PassingTypes DEF IInv, EventRecord
<1>5. order \in Seq(DOMAIN barriers)
  BY <1>1, ListedInOrder DEF BarrierOrders, IInv, BarrierInv
<1>6. ASSUME NEW k \in DOMAIN barriers
      PROVE  /\ Deadlock(k) \in EventRecord /\ Deadlock(k).token = 0 /\ Deadlock(k).type = "node.failed"
             /\ Deadlock(k).node \in Nodes
  <2>1. k.node \in Nodes /\ barriers[k].time \in Nat
    BY DEF IInv, BarrierInv
  <2>2. "run.deadlock" \in Codes
    BY DEF Codes
  <2> QED
    BY <2>1, <2>2, PassingTypes DEF Deadlock, EventRecord
<1>7. /\ stuck(order) \in Seq(EventRecord)
      /\ \A i \in 1..Len(stuck(order)) : /\ stuck(order)[i].token = 0 /\ stuck(order)[i].type = "node.failed"
                                         /\ stuck(order)[i].node \in Nodes
  <2>1. Len(order) \in Nat /\ \A i \in 1..Len(order) : order[i] \in DOMAIN barriers
    BY <1>5
  <2>2. \A i \in 1..Len(order) : /\ Deadlock(order[i]) \in EventRecord /\ Deadlock(order[i]).token = 0
                                 /\ Deadlock(order[i]).type = "node.failed" /\ Deadlock(order[i]).node \in Nodes
    BY <2>1, <1>6
  <2> QED
    BY <2>1, <2>2
<1> DEFINE closing == verdict(last)
<1>8. closing \in EventRecord
  BY <1>4
<1>9. NodeStateFromEvent(closing.type) = "none" /\ \A now : RunStateFromEvent(closing.type, now) = status'
  <2>1. CASE CodeAtEnd = ""
    <3>1. closing.type = "run.completed" /\ status' = "completed"
      BY <1>1, <1>4, <2>1
    <3> QED
      BY <3>1 DEF NodeStateFromEvent, RunStateFromEvent
  <2>2. CASE CodeAtEnd # ""
    <3>1. closing.type = "run.failed" /\ status' = "failed"
      BY <1>1, <1>4, <2>2
    <3> QED
      BY <3>1 DEF NodeStateFromEvent, RunStateFromEvent
  <2> QED
    BY <2>1, <2>2
<1>10. status' # "running"
  BY <1>1
<1> DEFINE waiting == stuck(order)
           m == Len(waiting)
           new == waiting \o <<closing>>
<1>11. events' = events \o new
  BY <1>1 DEF Emit
<1>12. waiting \in Seq(EventRecord) /\ \A i \in 1..m : /\ waiting[i].token = 0 /\ waiting[i].type = "node.failed"
                                                       /\ waiting[i].node \in Nodes
  BY <1>7
<1> HIDE DEF waiting, closing, verdict, stuck
<1>13. /\ new \in Seq(EventRecord) /\ m \in Nat /\ Len(new) = m + 1 /\ new[m + 1] = closing
       /\ \A i \in 1..m : new[i] = waiting[i]
  BY <1>8, <1>12
<1> HIDE DEF m, new
<1>14. PICK play : /\ play[0] = Shown /\ play[Len(new)] = Shown'
                   /\ \A k \in 1..Len(new) : play[k] = ApplyFrame(play[k - 1], new[k])
  BY <1>2, <1>11, <1>13, FramesFollow
<1>15. Tracks(play[0], Tokens(queue), {}, Tokens(Held), tokens, Blamed)
  BY <1>1, <1>14, Tracking
<1>16. Tracks(play[m], Tokens(queue), {}, Tokens(Held), tokens, Blamed)
  <2>1. \A k \in 1..m : new[k].type = "node.failed" /\ new[k].node \in Nodes /\ new[k].token = 0
    BY <1>12, <1>13
  <2>2. PlaysOn(play, new, 1, m)
    BY <1>13, <1>14 DEF PlaysOn
  <2> QED
    BY <1>13, <1>15, <2>1, <2>2, DeadlocksAreShown
<1>17. Shown' = ApplyFrame(play[m], closing)
  <2>1. m + 1 \in 1..Len(new) /\ (m + 1) - 1 = m
    BY <1>13
  <2> QED
    BY <1>13, <1>14, <2>1
<1>18. /\ Tracks(ApplyFrame(play[m], closing), Tokens(queue), {}, Tokens(Held), tokens, Blamed)
       /\ ApplyFrame(play[m], closing).runStatus = RunStateFromEvent(closing.type, play[m].runStatus)
  BY <1>9, <1>16, TracksSilent
<1>19. Shown'.runStatus = status'
  BY <1>9, <1>17, <1>18
<1>20. Blamed \subseteq Blamed'
  BY <1>2, <1>11, <1>13, BlamedStay
<1> QED
  BY <1>1, <1>10, <1>17, <1>18, <1>19, <1>20, ReplayFollows

\* The first two frames show the trigger as queued.
LEMMA ReplayInit ==
  ASSUME Init
  PROVE  ReplayInv
<1> DEFINE start  == [id |-> 1, node |-> scenario.trigger, edge |-> 0,
                      context |-> WithVariableDefaults(scenario.variables, scenario.input),
                      writes |-> Absent, lineage |-> <<>>, time |-> 0]
           begun  == [type |-> "run.started", time |-> 0, node |-> scenario.trigger, token |-> 0, code |-> ""]
           queued == [type |-> "node.queued", time |-> 0, node |-> scenario.trigger, token |-> 1, code |-> ""]
           first  == ApplyFrame(Unplayed, begun)
<1>1. queue = {start} /\ tokens = 1 /\ events = <<begun, queued>> /\ barriers = <<>> /\ status = "running"
  BY Zenon DEF Init
<1>2. scenario.trigger \in Nodes
  BY InitEstablishes, ScenarioFacts DEF IInv
<1>3. /\ begun.type = "run.started" /\ queued.type = "node.queued" /\ queued.node \in Nodes /\ queued.token = 1
      /\ start.node = queued.node /\ start.id = 1
  BY <1>2
<1> HIDE DEF start, begun, queued
<1>4. Len(events) = 2 /\ events[1] = begun /\ events[2] = queued
  BY <1>1
<1>5. Shown = ApplyFrame(first, queued)
  <2>1. Reconstruct(events, 0) = Unplayed /\ Reconstruct(events, 0 + 1) = ApplyFrame(Reconstruct(events, 0), events[0 + 1])
        /\ Reconstruct(events, 1 + 1) = ApplyFrame(Reconstruct(events, 1), events[1 + 1])
    <3>1. 0 \in Nat /\ 1 \in Nat
      OBVIOUS
    <3> QED
      BY <3>1, ReconstructNext
  <2>2. 0 + 1 = 1 /\ 1 + 1 = 2
    OBVIOUS
  <2>3. Reconstruct(events, 2) = ApplyFrame(ApplyFrame(Unplayed, events[1]), events[2])
    BY <2>1, <2>2
  <2> QED
    BY <1>4, <2>3 DEF Shown
<1>6. Tracks(Unplayed, {}, {}, {}, 0, {})
  <2>1. /\ Unplayed.nodeVisits = <<>> /\ Unplayed.open = {} /\ Unplayed \in Replays
    BY DEF Unplayed, Replays
  <2>2. Len(<<>>) = 0 /\ 1..0 = {} /\ Range(<<>>) = {}
    BY DEF Range
  <2>3. \A state : VisitsIn(Unplayed, state) = {}
    BY <2>1, <2>2 DEF VisitsIn
  <2> QED
    BY <2>1, <2>2, <2>3 DEF Tracks, IsReplay
<1>7. Tracks(first, {}, {}, {}, 0, {}) /\ first.runStatus = "running"
  <2>1. NodeStateFromEvent(begun.type) = "none" /\ \A now : RunStateFromEvent(begun.type, now) = "running"
    BY <1>3 DEF NodeStateFromEvent, RunStateFromEvent
  <2>2. /\ Tracks(ApplyFrame(Unplayed, begun), {}, {}, {}, 0, {})
        /\ ApplyFrame(Unplayed, begun).runStatus = RunStateFromEvent(begun.type, Unplayed.runStatus)
    BY <1>6, <2>1, TracksSilent
  <2> QED
    BY <2>1, <2>2
<1> HIDE DEF first
<1> DEFINE at == <<queued.node, queued.token>>
<1>8. Tracks(Shown, {at}, {}, {}, 1, {}) /\ Shown.runStatus = "running"
  <2>1. queued.token = 0 + 1
    BY <1>3
  <2>2. /\ Tracks(ApplyFrame(first, queued), {} \cup {<<queued.node, queued.token>>}, {}, {}, queued.token, {})
        /\ ApplyFrame(first, queued).runStatus = first.runStatus
    BY <1>3, <1>7, <2>1, TracksQueue
  <2>3. {} \cup {<<queued.node, queued.token>>} = {at}
    OBVIOUS
  <2> HIDE DEF at
  <2> QED
    BY <1>3, <1>5, <1>7, <2>2, <2>3
<1>9. Tokens(queue) = {at} /\ Tokens(Held) = {}
  <2>1. Held = {}
    BY <1>1 DEF Held
  <2> QED
    BY <1>1, <1>3, <2>1 DEF Tokens
<1> HIDE DEF at
<1>10. ShownAs("queued") = VisitsIn(Shown, "queued") /\ ShownAs("waiting") = VisitsIn(Shown, "waiting")
  BY DEF ShownAs, VisitsIn
<1>11. VisitsIn(Shown, "queued") = {at} /\ {} \subseteq Blamed
  BY <1>8 DEF Tracks
<1>12. Tracks(Shown, ShownAs("queued"), {}, ShownAs("waiting"), tokens, Blamed)
  BY <1>1, <1>8, <1>10, <1>11 DEF Tracks
<1> QED
  BY <1>1, <1>8, <1>9, <1>10, <1>11, <1>12 DEF ReplayInv

\* Every step keeps what is shown in line with the run.
LEMMA ReplayStep ==
  ASSUME IInv, NumberInv, ReplayInv, [Next]_vars
  PROVE  ReplayInv'
<1>1. CASE UNCHANGED vars
  BY <1>1 DEF vars, playVars, ReplayInv, Tracks, IsReplay, Replays, VisitRecord, Nodes, ShownAs, Shown,
              Tokens, Held, Blamed, VisitsIn
<1>2. CASE Next
  BY <1>2, StopsAreShown, VisitsAreShown, TraverseIsShown, ExceedLimitIsShown, FinishIsShown DEF Next
<1> QED
  BY <1>1, <1>2

\* What the invariant says of the visits shown, two by two.
LEMMA ReplayOfInv ==
  ASSUME ReplayInv, EventInv
  PROVE  ReplayMatchesRun
<1>1. IsReplay(Shown) /\ ShownAs("running") = {}
  BY DEF ReplayInv, Tracks, ShownAs, VisitsIn
<1>2. DOMAIN Shown.nodeVisits = 1..Len(Shown.nodeVisits)
  BY <1>1, VisitsTyped
<1>3. ASSUME NEW u \in Range(Shown.nodeVisits), NEW v \in Range(Shown.nodeVisits), u # v, u.token = v.token, u.token # 0
      PROVE  u.node = v.node /\ \E e \in Range(events) : e.token = u.token /\ e.code = "condition.invalid"
  <2>1. PICK i \in 1..Len(Shown.nodeVisits), j \in 1..Len(Shown.nodeVisits) :
          u = Shown.nodeVisits[i] /\ v = Shown.nodeVisits[j]
    BY <1>2 DEF Range
  <2>2. u.node = v.node /\ u.token \in Blamed
    BY <1>3, <2>1 DEF ReplayInv, Tracks
  <2>3. PICK k \in 1..Len(events) : events[k].code = "condition.invalid" /\ events[k].token = u.token
    BY <2>2 DEF Blamed
  <2>4. events[k] \in Range(events)
    BY <2>3 DEF EventInv, Range
  <2> QED
    BY <2>2, <2>3, <2>4
<1> QED
  BY <1>1, <1>3 DEF ReplayMatchesRun, ReplayInv

\* Whatever the flow, its joins and its limits, the Time Machine shows the simulation as it was:
\* the visits shown as queued are the tokens of the queue, those a join holds are shown as waiting,
\* the status is that of the run, and one token has one visit, unless a choice that could not be
\* evaluated failed it after it had completed (incident-service.ts:217-310).
THEOREM ReplaysMatchRuns == Spec => []ReplayMatchesRun
<1>1. Init => AccountInv /\ ReplayInv
  BY AccountInit, ReplayInit
<1>2. IInv /\ AccountInv /\ ReplayInv /\ [Next]_vars => AccountInv' /\ ReplayInv'
  BY AccountStep, ReplayStep DEF AccountInv
<1>3. IInv /\ ReplayInv => ReplayMatchesRun
  BY ReplayOfInv DEF IInv
<1> QED
  BY <1>1, <1>2, <1>3, SimulatorInvariant, PTL DEF Spec

-------------------------------------------------------------------------------
(* The verdict.                                                             *)

\* While the call runs, a failure is marked once a node has failed or an end that fails was reached,
\* and never without one of the two.
OutputList == \E S : outputs \in Seq(S)
NothingFailed == \A i \in 1..Len(events) : events[i].type # "node.failed"
Explained ==
  \/ \E i \in 1..Len(events) : events[i].code = runCode /\ events[i].type = "node.failed"
  \/ runCode = "end.failure" /\ outputs # <<>>
ReasonInv ==
  status = "running" => OutputList /\ (runCode = "" => NothingFailed) /\ (runCode # "" => Explained)

\* A failure has a code, and it is marked unless another one was before.
Noted(code) == code # "" /\ MarkFailure(code)

\* The three ways in which a step keeps to this: no node fails, one does and its failure is marked, or
\* an end that fails is reached.
Reasons(new) ==
  /\ UNCHANGED outputs \/ \E x : outputs' = Append(outputs, x)
  /\ \/ runCode' = runCode /\ \A i \in 1..Len(new) : new[i].type # "node.failed"
     \/ \E i \in 1..Len(new) : new[i].type = "node.failed" /\ Noted(new[i].code)
     \/ MarkFailure("end.failure") /\ \E x : outputs' = Append(outputs, x)

\* An output that is added stays.
LEMMA OutputsGrow ==
  ASSUME OutputList, NEW x, outputs' = Append(outputs, x)
  PROVE  OutputList' /\ outputs' # <<>>
<1>1. PICK S : outputs \in Seq(S)
  BY DEF OutputList
<1>2. outputs \in Seq(S \cup {x})
  BY <1>1
<1>3. outputs' \in Seq(S \cup {x}) /\ outputs' # <<>>
  BY <1>2
<1> QED
  BY <1>3 DEF OutputList

\* A step that gives its reasons keeps the invariant.
LEMMA ReasonsKept ==
  ASSUME EventInv, ReasonInv, status = "running", NEW new \in Seq(EventRecord), events' = events \o new,
         Reasons(new)
  PROVE  ReasonInv'
<1>1. /\ Len(events) \in Nat /\ Len(new) \in Nat /\ Len(events') = Len(events) + Len(new)
      /\ \A i \in 1..Len(events) : events'[i] = events[i]
      /\ \A i \in 1..Len(new) : events'[Len(events) + i] = new[i]
  BY Appended
<1>2. \A i \in 1..Len(events) : i \in 1..Len(events')
  BY <1>1
<1>3. \A i \in 1..Len(new) : Len(events) + i \in 1..Len(events')
  BY <1>1
<1>4. \A i \in 1..Len(events') : i \in 1..Len(events) \/ (i - Len(events) \in 1..Len(new) /\ events'[i] = new[i - Len(events)])
  BY <1>1
<1>5. /\ OutputList' /\ (outputs # <<>> => outputs' # <<>>)
      /\ (\E x : outputs' = Append(outputs, x)) => outputs' # <<>>
  <2>1. OutputList
    BY DEF ReasonInv
  <2>2. (\E x : outputs' = Append(outputs, x)) => OutputList' /\ outputs' # <<>>
    BY <2>1, OutputsGrow
  <2>3. UNCHANGED outputs => OutputList' /\ (outputs # <<>> => outputs' # <<>>)
    BY <2>1 DEF OutputList
  <2>4. UNCHANGED outputs \/ \E x : outputs' = Append(outputs, x)
    BY DEF Reasons
  <2> QED
    BY <2>2, <2>3, <2>4
<1>6. ASSUME runCode # "", runCode' = runCode
      PROVE  Explained'
  <2>1. CASE \E i \in 1..Len(events) : events[i].code = runCode /\ events[i].type = "node.failed"
    BY <1>1, <1>2, <1>6, <2>1 DEF Explained
  <2>2. CASE runCode = "end.failure" /\ outputs # <<>>
    BY <1>5, <1>6, <2>2 DEF Explained
  <2>3. Explained
    BY <1>6 DEF ReasonInv
  <2> QED
    BY <2>1, <2>2, <2>3 DEF Explained
<1>7. CASE runCode' = runCode /\ \A i \in 1..Len(new) : new[i].type # "node.failed"
  <2>1. runCode = "" => NothingFailed'
    BY <1>1, <1>4, <1>7 DEF ReasonInv, NothingFailed
  <2> QED
    BY <1>5, <1>6, <1>7, <2>1 DEF ReasonInv
<1>8. ASSUME NEW i \in 1..Len(new), new[i].type = "node.failed", Noted(new[i].code)
      PROVE  ReasonInv'
  <2> DEFINE code == new[i].code
  <2>1. runCode' = (IF runCode = "" THEN code ELSE runCode) /\ code # ""
    BY <1>8 DEF Noted, MarkFailure
  <2>2. \E k \in 1..Len(events') : events'[k].code = code /\ events'[k].type = "node.failed"
    BY <1>1, <1>3, <1>8
  <2> HIDE DEF code
  <2>3. CASE runCode = ""
    <3>1. runCode' = code
      BY <2>1, <2>3
    <3>2. Explained'
      BY <2>2, <3>1 DEF Explained
    <3> QED
      BY <1>5, <2>1, <3>1, <3>2 DEF ReasonInv
  <2>4. CASE runCode # ""
    <3>1. runCode' = runCode
      BY <2>1, <2>4
    <3> QED
      BY <1>5, <1>6, <2>4, <3>1 DEF ReasonInv
  <2> QED
    BY <2>3, <2>4
<1>9. CASE MarkFailure("end.failure") /\ \E x : outputs' = Append(outputs, x)
  <2>1. CASE runCode = ""
    <3>1. runCode' = "end.failure"
      BY <1>9, <2>1 DEF MarkFailure
    <3>2. Explained'
      BY <1>5, <1>9, <3>1 DEF Explained
    <3> QED
      BY <1>5, <3>1, <3>2 DEF ReasonInv
  <2>2. CASE runCode # ""
    <3>1. runCode' = runCode
      BY <1>9, <2>2 DEF MarkFailure
    <3> QED
      BY <1>5, <1>6, <2>2, <3>1 DEF ReasonInv
  <2> QED
    BY <2>1, <2>2
<1> QED
  BY <1>7, <1>8, <1>9 DEF Reasons


\* A token that stops at a join fails there with a code, or goes on without.
LEMMA StopGivesReason ==
  ASSUME EventInv, ReasonInv, status = "running", NEW e \in EventRecord, Emit(<<e>>), UNCHANGED <<status, outputs>>,
         \/ e.type = "node.failed" /\ Noted(e.code)
         \/ e.type # "node.failed" /\ UNCHANGED runCode
  PROVE  ReasonInv'
<1> DEFINE new == <<e>>
<1>1. new \in Seq(EventRecord) /\ Len(new) = 1 /\ new[1] = e
  OBVIOUS
<1>2. events' = events \o new
  BY DEF Emit
<1> HIDE DEF new
<1>3. Reasons(new)
  <2>1. 1..Len(new) = {1}
    BY <1>1
  <2>2. CASE e.type = "node.failed" /\ Noted(e.code)
    BY <1>1, <2>1, <2>2 DEF Reasons
  <2>3. CASE e.type # "node.failed" /\ UNCHANGED runCode
    BY <1>1, <2>1, <2>3 DEF Reasons
  <2> QED
    BY <2>2, <2>3
<1> QED
  BY <1>1, <1>2, <1>3, ReasonsKept

\* The five ways in which a token stops at a join.
LEMMA StopsGiveReasons ==
  ASSUME IInv, ReasonInv,
         Uncorrelated \/ AnyAlreadyResolved \/ DuplicateBranch \/ AwaitSiblings \/ MergeConflict
  PROVE  ReasonInv'
<1>1. ASSUME NEW t, Take(t)
      PROVE  /\ t.node \in Nodes /\ t.id \in Nat /\ t.time \in Nat /\ Arrival(t).time \in Nat
             /\ status = "running" /\ UNCHANGED <<status, outputs>>
  BY <1>1, ArrivalTime DEF Take, First, IInv, TokenInv, IsToken, playVars
<1>2. ASSUME NEW t, Take(t), NEW type \in {"node.waiting", "node.skipped", "node.failed"},
             NEW code \in Codes, NEW time \in Nat, Emit(<<Event(type, time, t, code)>>),
             \/ type = "node.failed" /\ Noted(code)
             \/ type # "node.failed" /\ UNCHANGED runCode
      PROVE  ReasonInv'
  <2> DEFINE e == Event(type, time, t, code)
  <2>1. type \in Journal!PlannedTypes
    BY PassingTypes
  <2>2. e \in EventRecord /\ e.code = code /\ e.type = type
    BY <1>1, <1>2, <2>1 DEF Event, EventRecord
  <2>3. Emit(<<e>>)
    BY <1>2
  <2> HIDE DEF e
  <2>4. \/ e.type = "node.failed" /\ Noted(e.code)
        \/ e.type # "node.failed" /\ UNCHANGED runCode
    BY <1>2, <2>2
  <2> QED
    BY <1>1, <1>2, <2>2, <2>3, <2>4, StopGivesReason DEF IInv
<1>3. {"", "join.uncorrelated", "join.any_already_resolved", "join.all_duplicate_branch",
       "context.merge_conflict"} \subseteq Codes
  BY DEF Codes
<1>4. CASE AwaitSiblings
  <2>1. PICK t : Take(t) /\ Emit(<<Event("node.waiting", t.time, t, "")>>) /\ UNCHANGED runCode
    BY <1>4 DEF AwaitSiblings
  <2> QED
    BY <1>1, <1>2, <1>3, <2>1
<1>5. CASE Uncorrelated
  <2>1. PICK t : /\ Take(t) /\ Emit(<<Event("node.failed", t.time, t, "join.uncorrelated")>>)
                 /\ Noted("join.uncorrelated")
    BY <1>5 DEF Uncorrelated, Noted
  <2> QED
    BY <1>1, <1>2, <1>3, <2>1
<1>6. CASE AnyAlreadyResolved
  <2>1. PICK t : /\ Take(t) /\ Emit(<<Event("node.skipped", t.time, t, "join.any_already_resolved")>>)
                 /\ UNCHANGED runCode
    BY <1>6 DEF AnyAlreadyResolved
  <2> QED
    BY <1>1, <1>2, <1>3, <2>1
<1>7. CASE DuplicateBranch
  <2>1. PICK t : /\ Take(t) /\ Emit(<<Event("node.skipped", t.time, t, "join.all_duplicate_branch")>>)
                 /\ UNCHANGED runCode
    BY <1>7 DEF DuplicateBranch
  <2> QED
    BY <1>1, <1>2, <1>3, <2>1
<1>8. CASE MergeConflict
  <2>1. PICK t : /\ Take(t) /\ Noted("context.merge_conflict")
                 /\ Emit(<<Event("node.failed", Arrival(t).time, t, "context.merge_conflict")>>)
    BY <1>8 DEF MergeConflict, Noted
  <2> QED
    BY <1>1, <1>2, <1>3, <2>1
<1> QED
  BY <1>4, <1>5, <1>6, <1>7, <1>8

\* What the events of a visit are, and that its call goes on.
LEMMA VisitReasons ==
  ASSUME IInv, NEW t, NEW a, Visit(t, a)
  PROVE  /\ EventInv /\ status = "running" /\ status' = "running"
         /\ Started(a.token) \in EventRecord /\ Started(a.token).type # "node.failed"
         /\ Completed(a.token) \in EventRecord /\ Completed(a.token).type # "node.failed"
         /\ \A code \in Codes, time \in Nat :
              /\ Event("node.failed", time, a.token, code) \in EventRecord
              /\ Event("node.failed", time, a.token, code).type = "node.failed"
              /\ Event("node.failed", time, a.token, code).code = code
BY VisitEvents DEF IInv, Visit, Pass, Started, Completed, Event

\* The four visits: a failure is marked when it is announced, and at an end that fails.
LEMMA VisitsGiveReasons ==
  ASSUME IInv, ReasonInv, FailVisit \/ ReachEnd \/ InvalidChoice \/ Traverse
  PROVE  ReasonInv'
<1>1. CASE FailVisit
  <2>1. PICK t, a : /\ Visit(t, a) /\ Noted(Failure(a.token)) /\ UNCHANGED outputs
                    /\ Emit(<<Started(a.token),
                              Event("node.failed", a.token.time, a.token, Failure(a.token))>>)
    BY <1>1 DEF FailVisit, Noted
  <2> DEFINE code == Failure(a.token)
             failed == Event("node.failed", a.token.time, a.token, code)
             new == <<Started(a.token), failed>>
  <2>2. code \in Codes /\ a.token.time \in Nat
    BY <2>1, VisitFrame DEF Failure, Codes, IInv
  <2>3. Noted(code) /\ UNCHANGED outputs
    BY <2>1
  <2>4. events' = events \o new
    BY <2>1 DEF Emit
  <2> HIDE DEF code
  <2>5. failed \in EventRecord /\ failed.type = "node.failed" /\ failed.code = code
    BY <2>1, <2>2, VisitReasons
  <2> HIDE DEF failed
  <2>6. new \in Seq(EventRecord) /\ Len(new) = 2 /\ new[2] = failed
    BY <2>1, <2>5, VisitReasons
  <2> HIDE DEF new
  <2>7. Reasons(new)
    <3>1. 2 \in 1..Len(new) /\ new[2].type = "node.failed" /\ Noted(new[2].code)
      BY <2>3, <2>5, <2>6
    <3> QED
      BY <2>3, <3>1 DEF Reasons
  <2> QED
    BY <2>1, <2>4, <2>6, <2>7, VisitReasons, ReasonsKept
<1>2. CASE ReachEnd
  <2>1. PICK t, a : /\ Visit(t, a) /\ \E x : outputs' = Append(outputs, x)
                    /\ MarkFailure("end.failure") \/ UNCHANGED runCode
                    /\ Emit(<<Started(a.token), Completed(a.token)>>)
    BY <1>2 DEF ReachEnd
  <2> DEFINE new == <<Started(a.token), Completed(a.token)>>
  <2>2. /\ new \in Seq(EventRecord) /\ Len(new) = 2 /\ new[1].type # "node.failed" /\ new[2].type # "node.failed"
    BY <2>1, VisitReasons
  <2>3. events' = events \o new
    BY <2>1 DEF Emit
  <2> HIDE DEF new
  <2>4. Reasons(new)
    <3>1. \A i \in 1..Len(new) : new[i].type # "node.failed"
      BY <2>2
    <3> QED
      BY <2>1, <3>1 DEF Reasons
  <2> QED
    BY <2>1, <2>2, <2>3, <2>4, VisitReasons, ReasonsKept
<1>3. CASE InvalidChoice
  <2>1. PICK t, a : /\ Visit(t, a) /\ Noted("condition.invalid") /\ UNCHANGED outputs
                    /\ Emit(<<Started(a.token), Completed(a.token),
                              Event("node.failed", Completed(a.token).time, a.token, "condition.invalid")>>)
    BY <1>3 DEF InvalidChoice, Noted
  <2> DEFINE refused == Event("node.failed", Completed(a.token).time, a.token, "condition.invalid")
             new == <<Started(a.token), Completed(a.token), refused>>
  <2>2. refused \in EventRecord /\ refused.type = "node.failed" /\ refused.code = "condition.invalid"
    <3>1. "condition.invalid" \in Codes /\ Completed(a.token).time \in Nat
      BY <2>1, VisitReasons DEF Codes, EventRecord
    <3> QED
      BY <2>1, <3>1, VisitReasons
  <2>3. events' = events \o new
    BY <2>1 DEF Emit
  <2> HIDE DEF refused
  <2>4. new \in Seq(EventRecord) /\ Len(new) = 3 /\ new[3] = refused
    BY <2>1, <2>2, VisitReasons
  <2> HIDE DEF new
  <2>5. Reasons(new)
    <3>1. 3 \in 1..Len(new) /\ new[3].type = "node.failed" /\ Noted(new[3].code)
      BY <2>1, <2>2, <2>4
    <3> QED
      BY <2>1, <3>1 DEF Reasons
  <2> QED
    BY <2>1, <2>3, <2>4, <2>5, VisitReasons, ReasonsKept
<1>4. CASE Traverse
  <2>1. PICK t, a : \E order \in InOrder(Choice(a.token).edges) :
          /\ Visit(t, a) /\ UNCHANGED <<runCode, outputs>>
          /\ Emit(<<Started(a.token), Completed(a.token)>> \o Crossings(a.token, order))
    BY <1>4 DEF Traverse
  <2>2. PICK order \in InOrder(Choice(a.token).edges) :
          /\ Visit(t, a) /\ UNCHANGED <<runCode, outputs>>
          /\ Emit(<<Started(a.token), Completed(a.token)>> \o Crossings(a.token, order))
    BY <2>1
  <2> DEFINE visited == <<Started(a.token), Completed(a.token)>>
             crossed == Crossings(a.token, order)
             new == visited \o crossed
  <2>3. /\ visited \in Seq(EventRecord) /\ Len(visited) = 2
        /\ visited[1].type # "node.failed" /\ visited[2].type # "node.failed"
    BY <2>2, VisitReasons
  <2>4. /\ crossed \in Seq(EventRecord) /\ Len(crossed) \in Nat
        /\ \A i \in 1..Len(crossed) : crossed[i].type # "node.failed"
    <3>1. crossed \in Seq(EventRecord) /\ Len(crossed) = 2 * Len(order) /\ Len(crossed) \in Nat
      BY <2>2, CrossingEvents DEF IInv
    <3>2. \A i \in 1..2 * Len(order) : crossed[i].type # "node.failed"
      BY DEF Crossings, Event
    <3> HIDE DEF crossed
    <3> QED
      BY <3>1, <3>2
  <2>5. events' = events \o new
    BY <2>2 DEF Emit
  <2> HIDE DEF visited, crossed
  <2>6. /\ new \in Seq(EventRecord) /\ Len(new) = Len(visited) + Len(crossed)
        /\ \A i \in 1..Len(visited) + Len(crossed) :
             new[i] = IF i <= Len(visited) THEN visited[i] ELSE crossed[i - Len(visited)]
    BY <2>3, <2>4, ConcatProperties, Zenon
  <2> HIDE DEF new
  <2>7. \A i \in 1..Len(new) : new[i].type # "node.failed"
    <3> SUFFICES ASSUME NEW i \in 1..Len(new) PROVE new[i].type # "node.failed"
      OBVIOUS
    <3>1. CASE i <= 2
      BY <2>3, <2>4, <2>6, <3>1
    <3>2. CASE ~(i <= 2)
      <4>1. i - 2 \in 1..Len(crossed) /\ new[i] = crossed[i - 2]
        BY <2>3, <2>4, <2>6, <3>2
      <4> QED
        BY <2>4, <4>1
    <3> QED
      BY <3>1, <3>2
  <2>8. Reasons(new)
    BY <2>2, <2>7 DEF Reasons
  <2> QED
    BY <2>2, <2>5, <2>6, <2>8, VisitReasons, ReasonsKept
<1> QED
  BY <1>1, <1>2, <1>3, <1>4

\* A call that returns says why: a completed one has nothing to say, a failed one its first failure,
\* a join that still waits, or that no end was reached.
LEMMA FinishIsJustified ==
  ASSUME IInv, ReasonInv, Finish
  PROVE  ReasonInv' /\ VerdictIsJustified'
<1> DEFINE verdict(last) ==
             [type |-> IF CodeAtEnd = "" THEN "run.completed" ELSE "run.failed",
              time |-> last, node |-> scenario.trigger, token |-> 0, code |-> CodeAtEnd]
           stuck(order) == [i \in 1..Len(order) |-> Deadlock(order[i])]
           T == {Deadlock(k) : k \in DOMAIN barriers}
           n == Len(events)
<1>1. PICK last \in Times, order \in BarrierOrders :
        /\ status = "running" /\ UNCHANGED <<barriers, outputs>> /\ runCode' = CodeAtEnd
        /\ status' = IF CodeAtEnd = "" THEN "completed" ELSE "failed"
        /\ events' = events \o (stuck(order) \o <<verdict(last)>>)
  BY DEF Finish, playVars, Emit
<1> DEFINE closing == verdict(last)
           waiting == stuck(order)
           m == Len(waiting)
           S == EventRecord \cup {closing} \cup T
           new == waiting \o <<closing>>
<1>2. /\ order \in Seq(DOMAIN barriers) /\ Len(order) \in Nat
      /\ Len(order) = 0 <=> DOMAIN barriers = {}
  <2>1. IsFiniteSet(DOMAIN barriers) /\ order \in SetToSeqs(DOMAIN barriers)
    BY <1>1 DEF BarrierOrders, IInv, BarrierInv
  <2>2. order \in Seq(DOMAIN barriers)
    BY <2>1, ListedInOrder
  <2>3. order \in [1..Cardinality(DOMAIN barriers) -> DOMAIN barriers] /\ Cardinality(DOMAIN barriers) \in Nat
    BY <2>1, FS_CardinalityType DEF SetToSeqs
  <2>4. Len(order) = Cardinality(DOMAIN barriers)
    BY <2>2, <2>3
  <2>5. Cardinality(DOMAIN barriers) = 0 <=> DOMAIN barriers = {}
    BY <2>1, FS_EmptySet
  <2> QED
    BY <2>2, <2>3, <2>4, <2>5
<1>3. m = Len(order) /\ m \in Nat /\ waiting \in Seq(T) /\ \A i \in 1..m : waiting[i] = Deadlock(order[i])
  <2> HIDE DEF T
  <2>1. \A i \in 1..Len(order) : Deadlock(order[i]) \in T
    BY <1>2 DEF T
  <2> QED
    BY <1>2, <2>1
<1>4. closing.type # "node.failed"
  OBVIOUS
<1>5. events \in Seq(S) /\ n \in Nat /\ waiting \in Seq(S) /\ closing \in S
  <2>1. events \in Seq(EventRecord)
    BY DEF IInv, EventInv
  <2> HIDE DEF T, closing, waiting
  <2> QED
    BY <1>3, <2>1
<1>6. events' = events \o new
  BY <1>1
<1> HIDE DEF waiting, closing, S, T, m, n
<1>7. new \in Seq(S) /\ Len(new) = m + 1 /\ new[m + 1] = closing /\ \A i \in 1..m : new[i] = waiting[i]
  BY <1>3, <1>5 DEF m
<1> HIDE DEF new
<1>8. /\ events' \in Seq(S) /\ Len(events') = n + (m + 1)
      /\ \A i \in 1..(n + (m + 1)) : events'[i] = IF i <= n THEN events[i] ELSE new[i - n]
  <2>1. /\ events \o new \in Seq(S) /\ Len(events \o new) = Len(events) + Len(new)
        /\ \A i \in 1..Len(events) + Len(new) :
             (events \o new)[i] = IF i <= Len(events) THEN events[i] ELSE new[i - Len(events)]
    BY <1>5, <1>7, ConcatProperties, Zenon
  <2> QED
    BY <1>6, <1>7, <2>1 DEF n
<1>9. \A i \in 1..n : i \in 1..Len(events') /\ events'[i] = events[i]
  BY <1>3, <1>5, <1>8
<1>10. status' # "running" /\ ReasonInv'
  BY <1>1 DEF ReasonInv
<1>11. OutputList /\ (runCode = "" => NothingFailed) /\ (runCode # "" => Explained)
  BY <1>1 DEF ReasonInv
<1>12. CASE CodeAtEnd = ""
  <2>1. runCode = "" /\ DOMAIN barriers = {} /\ outputs # <<>>
    BY <1>12 DEF CodeAtEnd
  <2>2. m = 0
    BY <1>2, <1>3, <2>1
  <2>3. \A i \in 1..n : events[i].type # "node.failed"
    BY <1>11, <2>1 DEF NothingFailed, n
  <2>4. ASSUME NEW i \in 1..Len(events')
        PROVE  events'[i].type # "node.failed"
    <3>1. CASE i <= n
      BY <1>5, <1>8, <2>3, <3>1
    <3>2. CASE ~(i <= n)
      <4>1. i - n = m + 1
        BY <1>5, <1>8, <2>2, <3>2
      <4>2. events'[i] = closing
        BY <1>7, <1>8, <3>2, <4>1, <2>2
      <4> QED
        BY <1>4, <4>2
    <3> QED
      BY <3>1, <3>2
  <2>5. status' = "completed" /\ runCode' = "" /\ barriers' = barriers /\ outputs' = outputs
    BY <1>1, <1>12
  <2> QED
    BY <1>10, <2>1, <2>4, <2>5 DEF VerdictIsJustified
<1>13. CASE CodeAtEnd # ""
  <2>1. status' = "failed" /\ outputs' = outputs /\ runCode' = CodeAtEnd
    BY <1>1, <1>13
  <2>2. CASE runCode # ""
    <3>1. runCode' = runCode
      BY <2>1, <2>2 DEF CodeAtEnd
    <3>2. Explained
      BY <1>11, <2>2
    <3>3. Explained'
      BY <1>9, <2>1, <3>1, <3>2 DEF Explained, n
    <3> QED
      BY <1>10, <2>1, <3>3 DEF VerdictIsJustified, Explained
  <2>3. CASE runCode = "" /\ DOMAIN barriers # {}
    <3>1. runCode' = "run.deadlock"
      BY <2>1, <2>3 DEF CodeAtEnd
    <3>2. 1 \in 1..m /\ n + 1 \in 1..(n + (m + 1)) /\ ~(n + 1 <= n) /\ (n + 1) - n = 1
      <4>1. m \in Nat /\ m # 0 /\ n \in Nat
        BY <1>2, <1>3, <1>5, <2>3
      <4> QED
        BY ONLY <4>1
    <3>3. events'[n + 1] = waiting[1] /\ waiting[1] = Deadlock(order[1])
      BY <1>3, <1>7, <1>8, <3>2
    <3>4. Deadlock(order[1]).code = "run.deadlock" /\ Deadlock(order[1]).type = "node.failed"
      BY DEF Deadlock
    <3>5. \E i \in 1..Len(events') : events'[i].code = runCode' /\ events'[i].type = "node.failed"
      BY <1>8, <3>1, <3>2, <3>3, <3>4
    <3> QED
      BY <1>10, <2>1, <3>5 DEF VerdictIsJustified
  <2>4. CASE runCode = "" /\ DOMAIN barriers = {}
    <3>1. runCode' = "run.no_end_reached" /\ outputs' = <<>>
      BY <1>13, <2>1, <2>4 DEF CodeAtEnd
    <3> QED
      BY <1>10, <2>1, <3>1 DEF VerdictIsJustified
  <2> QED
    BY <2>2, <2>3, <2>4
<1> QED
  BY <1>12, <1>13

\* A call that exceeds a limit says which in its last event.
LEMMA LimitIsJustified ==
  ASSUME IInv, ExceedLimit
  PROVE  ReasonInv' /\ VerdictIsJustified'
<1>1. PICK t, a : /\ t \in queue /\ Pass(t, a) /\ status' = "failed"
                  /\ runCode' = IF steps < scenario.maxSteps THEN "run.max_visits_per_node" ELSE "run.max_steps"
                  /\ Emit(<<Event("run.limit_exceeded", a.token.time, a.token, runCode')>>)
  BY DEF ExceedLimit
<1> DEFINE e == Event("run.limit_exceeded", a.token.time, a.token, runCode')
           S == EventRecord \cup {e}
<1>2. e.type = "run.limit_exceeded"
  BY DEF Event
<1>3. events' = events \o <<e>> /\ events \in Seq(EventRecord)
  BY <1>1 DEF Emit, IInv, EventInv
<1> HIDE DEF e
<1>4. events \in Seq(S) /\ e \in S
  BY <1>3
<1>5. events'[Len(events')] = e
  BY <1>3, <1>4
<1>6. Last(events').type = "run.limit_exceeded"
  BY <1>2, <1>5 DEF Last
<1> QED
  BY <1>1, <1>6 DEF ReasonInv, VerdictIsJustified

\* The call starts with nothing to explain.
LEMMA ReasonInit ==
  ASSUME Init
  PROVE  ReasonInv /\ VerdictIsJustified
<1>1. status = "running" /\ runCode = ""
  BY DEF Init
<1>2. outputs \in Seq(EventRecord)
  BY EmptySeq, Zenon DEF Init
<1>3. NothingFailed
  <2> DEFINE first  == [type |-> "run.started", time |-> 0, node |-> scenario.trigger, token |-> 0, code |-> ""]
             second == [type |-> "node.queued", time |-> 0, node |-> scenario.trigger, token |-> 1, code |-> ""]
  <2>1. events = <<first, second>> /\ first.type # "node.failed" /\ second.type # "node.failed"
    BY DEF Init
  <2> HIDE DEF first, second
  <2> QED
    BY <2>1 DEF NothingFailed
<1> QED
  BY <1>1, <1>2, <1>3 DEF ReasonInv, OutputList, VerdictIsJustified

\* Every step keeps its reasons, and the last one is justified by them.
LEMMA ReasonStep ==
  ASSUME IInv, ReasonInv, VerdictIsJustified, [Next]_vars
  PROVE  ReasonInv' /\ VerdictIsJustified'
<1>1. CASE UNCHANGED vars
  BY <1>1 DEF vars, ReasonInv, OutputList, NothingFailed, Explained, VerdictIsJustified
<1>2. CASE Uncorrelated \/ AnyAlreadyResolved \/ DuplicateBranch \/ AwaitSiblings \/ MergeConflict
  <2>1. status' = "running"
    BY <1>2 DEF Uncorrelated, AnyAlreadyResolved, DuplicateBranch, AwaitSiblings, MergeConflict, Take
  <2> QED
    BY <1>2, <2>1, StopsGiveReasons DEF VerdictIsJustified
<1>3. CASE FailVisit \/ ReachEnd \/ InvalidChoice \/ Traverse
  <2>1. status' = "running"
    BY <1>3 DEF FailVisit, ReachEnd, InvalidChoice, Traverse, Visit, Pass
  <2> QED
    BY <1>3, <2>1, VisitsGiveReasons DEF VerdictIsJustified
<1> QED
  BY <1>1, <1>2, <1>3, FinishIsJustified, LimitIsJustified DEF Next

\* Whatever the flow, a completed run had no failed node, no join that still waited, and reached an
\* end; a failed one carries the code of a node that failed, of an end that fails or of a limit, or
\* reached no end: the safety half of ReturnsAVerdict (simulator.go:438-495).
THEOREM VerdictsAreJustified == Spec => []VerdictIsJustified
<1>1. Init => ReasonInv /\ VerdictIsJustified
  BY ReasonInit
<1>2. IInv /\ ReasonInv /\ VerdictIsJustified /\ [Next]_vars => ReasonInv' /\ VerdictIsJustified'
  BY ReasonStep
<1> QED
  BY <1>1, <1>2, SimulatorInvariant, PTL DEF Spec
-------------------------------------------------------------------------------
(* Paths.                                                                   *)

\* Counting up to n.
LEMMA CountUp ==
  ASSUME NEW n \in Nat, NEW T, 0 \in T, \A i \in 0..n : i \in T /\ i < n => i + 1 \in T
  PROVE  0..n \subseteq T
<1> DEFINE U == {i \in 0..n : i \notin T}
<1> SUFFICES ASSUME U # {} PROVE FALSE
  OBVIOUS
<1>0. U \in SUBSET Nat
  OBVIOUS
<1>1. PICK i \in U : \A k \in U : i <= k
  BY <1>0, LeastNumber, Zenon
<1>2. i \in 0..n /\ i # 0 /\ i \notin T
  BY <1>1
<1>3. i - 1 \in 0..n /\ i - 1 < n /\ (i - 1) + 1 = i /\ i - 1 \notin U
  BY <1>1, <1>2
<1>4. i - 1 \in T
  BY <1>3
<1> QED
  BY <1>2, <1>3, <1>4

\* One path leads to another if their keys are the same as far as it goes.
LEMMA PrefixKeys ==
  ASSUME NEW p \in Paths, NEW q \in Paths
  PROVE  IsPrefix(p, q) <=> Len(p) <= Len(q) /\ \A i \in 1..Len(p) : p[i] = q[i]
<1> USE DEF Paths
<1>1. Len(p) \in Nat /\ Len(q) \in Nat
  OBVIOUS
<1>2. CASE Len(p) <= Len(q)
  <2>1. /\ SubSeq(p, 1, Len(p)) \in Seq(Keys) /\ Len(SubSeq(p, 1, Len(p))) = Len(p)
        /\ \A i \in 1..Len(p) : SubSeq(p, 1, Len(p))[i] = p[i]
    BY <1>1
  <2>2. /\ SubSeq(q, 1, Len(p)) \in Seq(Keys) /\ Len(SubSeq(q, 1, Len(p))) = Len(p)
        /\ \A i \in 1..Len(p) : SubSeq(q, 1, Len(p))[i] = q[i]
    BY <1>1, <1>2
  <2>3. SubSeq(p, 1, Len(p)) = SubSeq(q, 1, Len(p)) <=> \A i \in 1..Len(p) : p[i] = q[i]
    BY <2>1, <2>2, SeqEqual
  <2> QED
    BY <1>2, <2>3 DEF IsPrefix
<1>3. CASE ~(Len(p) <= Len(q))
  BY <1>3 DEF IsPrefix
<1> QED
  BY <1>2, <1>3

\* The order of paths: that of a tree.
LEMMA PrefixReflexive ==
  ASSUME NEW p \in Paths
  PROVE  IsPrefix(p, p)
<1>1. Len(p) <= Len(p)
  BY DEF Paths
<1> QED
  BY <1>1, PrefixKeys

LEMMA PrefixTransitive ==
  ASSUME NEW p \in Paths, NEW q \in Paths, NEW r \in Paths, IsPrefix(p, q), IsPrefix(q, r)
  PROVE  IsPrefix(p, r)
<1>1. Len(p) \in Nat /\ Len(q) \in Nat /\ Len(r) \in Nat
  BY DEF Paths
<1>2. Len(p) <= Len(q) /\ Len(q) <= Len(r)
  BY PrefixKeys
<1>3. /\ \A i \in 1..Len(p) : p[i] = q[i]
      /\ \A i \in 1..Len(q) : q[i] = r[i]
  BY PrefixKeys
<1>4. Len(p) <= Len(r) /\ \A i \in 1..Len(p) : i \in 1..Len(q) /\ p[i] = r[i]
  BY <1>1, <1>2, <1>3
<1> QED
  BY <1>4, PrefixKeys

LEMMA PrefixAntisymmetric ==
  ASSUME NEW p \in Paths, NEW q \in Paths, IsPrefix(p, q), Len(q) <= Len(p)
  PROVE  p = q
<1>1. Len(p) = Len(q) /\ \A i \in 1..Len(p) : p[i] = q[i]
  BY PrefixKeys DEF Paths
<1> QED
  BY <1>1, SeqEqual DEF Paths

LEMMA PrefixesCompare ==
  ASSUME NEW p \in Paths, NEW q \in Paths, NEW r \in Paths, IsPrefix(p, r), IsPrefix(q, r)
  PROVE  IsPrefix(p, q) \/ IsPrefix(q, p)
<1>1. Len(p) \in Nat /\ Len(q) \in Nat /\ Len(r) \in Nat
  BY DEF Paths
<1>2. /\ \A i \in 1..Len(p) : p[i] = r[i]
      /\ \A i \in 1..Len(q) : q[i] = r[i]
  BY PrefixKeys
<1>3. CASE Len(p) <= Len(q)
  <2>1. \A i \in 1..Len(p) : p[i] = q[i]
    BY <1>1, <1>2, <1>3
  <2> QED
    BY <1>3, <2>1, PrefixKeys
<1>4. CASE Len(q) <= Len(p)
  <2>1. \A i \in 1..Len(q) : q[i] = p[i]
    BY <1>1, <1>2, <1>4
  <2> QED
    BY <1>4, <2>1, PrefixKeys
<1> QED
  BY <1>1, <1>3, <1>4

\* A path below another is that path and a suffix.
LEMMA SuffixCompletes ==
  ASSUME NEW path \in Paths, NEW p \in Paths, IsPrefix(path, p)
  PROVE  Suffix(p, path) \in Paths /\ path \o Suffix(p, path) = p
<1> USE DEF Paths
<1> DEFINE s == Suffix(p, path)
<1>1. /\ Len(path) \in Nat /\ Len(p) \in Nat /\ Len(path) <= Len(p)
      /\ \A i \in 1..Len(path) : path[i] = p[i]
  BY PrefixKeys
<1>2. /\ s \in Seq(Keys) /\ Len(s) = Len(p) - Len(path)
      /\ \A i \in 1..Len(s) : s[i] = p[Len(path) + i]
  <2>1. CASE Len(path) = Len(p)
    BY <1>1, <2>1 DEF Suffix
  <2>2. CASE Len(path) < Len(p)
    BY <1>1, <2>2 DEF Suffix
  <2> QED
    BY <1>1, <2>1, <2>2
<1> HIDE DEF s
<1>3. /\ path \o s \in Seq(Keys) /\ Len(path \o s) = Len(path) + Len(s)
      /\ \A i \in 1..Len(path) + Len(s) :
           (path \o s)[i] = IF i <= Len(path) THEN path[i] ELSE s[i - Len(path)]
  BY <1>2
<1>4. Len(path \o s) = Len(p) /\ \A i \in 1..Len(p) : (path \o s)[i] = p[i]
  <2>1. Len(path \o s) = Len(p)
    BY <1>1, <1>2, <1>3
  <2>2. ASSUME NEW i \in 1..Len(p)
        PROVE  (path \o s)[i] = p[i]
    <3>1. CASE i <= Len(path)
      BY <1>1, <1>2, <1>3, <3>1
    <3>2. CASE ~(i <= Len(path))
      <4>1. i - Len(path) \in 1..Len(s) /\ Len(path) + (i - Len(path)) = i
        BY <1>1, <1>2, <3>2
      <4> QED
        BY <1>1, <1>2, <1>3, <3>2, <4>1
    <3> QED
      BY <3>1, <3>2
  <2> QED
    BY <2>1, <2>2
<1>5. path \o s = p
  BY <1>3, <1>4, SeqEqual
<1> QED
  BY <1>2, <1>5 DEF s

LEMMA SuffixOfConcat ==
  ASSUME NEW path \in Paths, NEW q \in Paths
  PROVE  path \o q \in Paths /\ IsPrefix(path, path \o q) /\ Suffix(path \o q, path) = q
<1> DEFINE p == path \o q
<1>1. /\ Len(path) \in Nat /\ Len(q) \in Nat /\ p \in Paths /\ Len(p) = Len(path) + Len(q)
      /\ \A i \in 1..Len(p) : p[i] = IF i <= Len(path) THEN path[i] ELSE q[i - Len(path)]
  BY DEF Paths
<1> HIDE DEF p
<1>2. IsPrefix(path, p)
  <2>1. Len(path) <= Len(p) /\ \A i \in 1..Len(path) : path[i] = p[i]
    BY <1>1
  <2> QED
    BY <1>1, <2>1, PrefixKeys
<1>3. /\ Suffix(p, path) \in Seq(Keys) /\ Len(Suffix(p, path)) = Len(q)
      /\ \A i \in 1..Len(q) : Suffix(p, path)[i] = p[Len(path) + i]
  <2>1. CASE Len(q) = 0
    BY <1>1, <2>1 DEF Suffix, Paths
  <2>2. CASE Len(q) > 0
    BY <1>1, <2>2 DEF Suffix, Paths
  <2> QED
    BY <1>1, <2>1, <2>2
<1>4. \A i \in 1..Len(q) : p[Len(path) + i] = q[i]
  <2> SUFFICES ASSUME NEW i \in 1..Len(q) PROVE p[Len(path) + i] = q[i]
    OBVIOUS
  <2>1. Len(path) + i \in 1..Len(p) /\ ~(Len(path) + i <= Len(path)) /\ (Len(path) + i) - Len(path) = i
    BY <1>1
  <2> QED
    BY <1>1, <2>1
<1>5. Suffix(p, path) = q
  BY <1>3, <1>4, SeqEqual DEF Paths
<1> QED
  BY <1>1, <1>2, <1>5 DEF p

-------------------------------------------------------------------------------
(* Documents.                                                               *)

\* Two documents agree on a leaf: p in one is what q is in the other.
Same(doc, p, other, q) ==
  (p \in DOMAIN doc <=> q \in DOMAIN other) /\ (p \in DOMAIN doc => doc[p] = other[q])

\* Documents that agree on every leaf are equal.
LEMMA SameDocuments ==
  ASSUME NEW doc, IsDocument(doc), NEW other, IsDocument(other),
         \A p \in Paths : Same(doc, p, other, p)
  PROVE  doc = other
<1>1. DOMAIN doc = DOMAIN other /\ \A p \in DOMAIN doc : doc[p] = other[p]
  BY DEF IsDocument, Same
<1>2. doc = [p \in DOMAIN doc |-> doc[p]] /\ other = [p \in DOMAIN other |-> other[p]]
  BY DEF IsDocument
<1>3. [p \in DOMAIN doc |-> doc[p]] = [p \in DOMAIN other |-> other[p]]
  BY <1>1
<1> QED
  BY <1>2, <1>3

\* Nothing is a document, and the only one without leaves.
LEMMA AbsentDocument ==
  /\ IsDocument(Absent) /\ DOMAIN Absent = {}
  /\ \A doc : IsDocument(doc) /\ DOMAIN doc = {} => doc = Absent
<1>1. Absent \in Seq(Keys) /\ Len(Absent) = 0
  BY EmptySeq DEF Absent
<1>2. DOMAIN Absent = {}
  <2>1. DOMAIN Absent = 1..Len(Absent)
    BY <1>1, LenProperties
  <2> QED
    BY <1>1, <2>1
<1>3. Absent = [p \in DOMAIN Absent |-> Absent[p]]
  <2>1. Absent \in [1..0 -> Keys]
    BY <1>1, LenProperties
  <2> QED
    BY <2>1, <1>2
<1>4. IsDocument(Absent)
  BY <1>2, <1>3 DEF IsDocument
<1>5. ASSUME NEW doc, IsDocument(doc), DOMAIN doc = {}
      PROVE  doc = Absent
  BY <1>2, <1>4, <1>5, SameDocuments DEF Same
<1> QED
  BY <1>2, <1>4, <1>5

\* The value put at a path is all there is below it, and nothing else changes.
LEMMA SetValueLeaves ==
  ASSUME NEW doc, IsDocument(doc), NEW path \in Paths, NEW value, IsDocument(value)
  PROVE  /\ IsDocument(SetValue(doc, path, value))
         /\ \A p \in Paths : IF IsPrefix(path, p)
                             THEN Same(SetValue(doc, path, value), p, value, Suffix(p, path))
                             ELSE Same(SetValue(doc, path, value), p, doc, p)
<1> DEFINE D == {path \o q : q \in DOMAIN value} \cup (DOMAIN doc \ Below(doc, path))
           r == SetValue(doc, path, value)
<1>1. DOMAIN doc \subseteq Paths /\ DOMAIN value \subseteq Paths
  BY DEF IsDocument
<1>2. r = [p \in D |-> IF IsPrefix(path, p) THEN value[Suffix(p, path)] ELSE doc[p]]
  BY DEF SetValue
<1>3. D \subseteq Paths
  BY <1>1, SuffixOfConcat
<1>4. \A p \in Paths : p \in D <=> IF IsPrefix(path, p) THEN Suffix(p, path) \in DOMAIN value
                                  ELSE p \in DOMAIN doc
  <2> SUFFICES ASSUME NEW p \in Paths
               PROVE  p \in D <=> IF IsPrefix(path, p) THEN Suffix(p, path) \in DOMAIN value
                                  ELSE p \in DOMAIN doc
    OBVIOUS
  <2>1. \A q \in DOMAIN value : IsPrefix(path, path \o q) /\ Suffix(path \o q, path) = q
    BY <1>1, SuffixOfConcat
  <2>2. IsPrefix(path, p) => path \o Suffix(p, path) = p
    BY SuffixCompletes
  <2> QED
    BY <2>1, <2>2 DEF Below
<1> HIDE DEF D
<1>5. DOMAIN r = D /\ \A p \in D : r[p] = IF IsPrefix(path, p) THEN value[Suffix(p, path)] ELSE doc[p]
  BY <1>2
<1>6. IsDocument(r)
  BY <1>2, <1>3, <1>5 DEF IsDocument
<1>7. \A p \in Paths : IF IsPrefix(path, p) THEN Same(r, p, value, Suffix(p, path)) ELSE Same(r, p, doc, p)
  BY <1>4, <1>5 DEF Same
<1> QED
  BY <1>6, <1>7

LEMMA DeleteValueLeaves ==
  ASSUME NEW doc, IsDocument(doc), NEW path
  PROVE  /\ IsDocument(DeleteValue(doc, path))
         /\ \A p \in Paths : IF IsPrefix(path, p) THEN p \notin DOMAIN DeleteValue(doc, path)
                             ELSE Same(DeleteValue(doc, path), p, doc, p)
BY DEF DeleteValue, Below, IsDocument, Same

LEMMA PutLeaves ==
  ASSUME NEW doc, IsDocument(doc), NEW path \in Paths, NEW value, IsDocument(value)
  PROVE  /\ IsDocument(Put(doc, path, value))
         /\ \A p \in Paths : IF IsPrefix(path, p)
                             THEN Same(Put(doc, path, value), p, value, Suffix(p, path))
                             ELSE Same(Put(doc, path, value), p, doc, p)
<1>1. CASE value = Absent
  <2>1. Put(doc, path, value) = DeleteValue(doc, path)
    BY <1>1 DEF Put
  <2>2. \A p : p \notin DOMAIN value
    BY <1>1, AbsentDocument
  <2>3. \A p \in Paths : IsPrefix(path, p) => Same(DeleteValue(doc, path), p, value, Suffix(p, path))
    BY <2>2, DeleteValueLeaves DEF Same
  <2> QED
    BY <2>1, <2>3, DeleteValueLeaves
<1>2. CASE value # Absent
  BY <1>2, SetValueLeaves DEF Put
<1> QED
  BY <1>1, <1>2

\* What is read at a path is a document.
LEMMA GetValueLeaves ==
  ASSUME NEW doc, IsDocument(doc), NEW path \in Paths
  PROVE  /\ IsDocument(GetValue(doc, path))
         /\ \A s \in Paths : Same(GetValue(doc, path), s, doc, path \o s)
<1> DEFINE D == {Suffix(p, path) : p \in Below(doc, path)}
           r == GetValue(doc, path)
<1>1. \A p \in Below(doc, path) : p \in Paths /\ p \in DOMAIN doc /\ IsPrefix(path, p)
  BY DEF Below, IsDocument
<1>2. D \subseteq Paths
  BY <1>1, SuffixCompletes
<1>3. \A s \in Paths : s \in D <=> path \o s \in DOMAIN doc
  <2> SUFFICES ASSUME NEW s \in Paths PROVE s \in D <=> path \o s \in DOMAIN doc
    OBVIOUS
  <2>1. IsPrefix(path, path \o s) /\ Suffix(path \o s, path) = s
    BY SuffixOfConcat
  <2>2. path \o s \in DOMAIN doc => s \in D
    BY <2>1 DEF Below
  <2>3. \A p \in Below(doc, path) : Suffix(p, path) = s => path \o s = p
    BY <1>1, SuffixCompletes
  <2> QED
    BY <1>1, <2>2, <2>3
<1> HIDE DEF D
<1>4. r = [s \in D |-> doc[path \o s]]
  BY DEF GetValue, D
<1>5. DOMAIN r = D /\ \A s \in D : r[s] = doc[path \o s]
  BY <1>4
<1>6. IsDocument(r)
  BY <1>2, <1>4, <1>5 DEF IsDocument
<1> QED
  BY <1>3, <1>5, <1>6 DEF Same

LEMMA OverlayDocument ==
  ASSUME NEW base, IsDocument(base), NEW input, IsDocument(input)
  PROVE  IsDocument(Overlay(base, input))
<1> DEFINE D == DOMAIN input \cup {q \in DOMAIN base : ~\E r \in DOMAIN input : r[1] = q[1]}
<1>1. D \subseteq Paths
  BY DEF IsDocument
<1> HIDE DEF D
<1>2. Overlay(base, input) = [p \in D |-> IF p \in DOMAIN input THEN input[p] ELSE base[p]]
  BY DEF Overlay, D
<1> QED
  BY <1>1, <1>2 DEF IsDocument

-------------------------------------------------------------------------------
(* The replay of the writes of a join.                                      *)

\* The contexts before and after each write of an order.
Writing(base, written, order, after) ==
  after = [n \in 0..Len(order) |-> IF n = 0 THEN base ELSE Put(after[n - 1], order[n], written[order[n]])]

\* One write more.
LEMMA WritingUnfolds ==
  ASSUME NEW base, NEW written, NEW order, Len(order) \in Nat, NEW after, Writing(base, written, order, after)
  PROVE  /\ after[0] = base
         /\ \A n \in 1..Len(order) : after[n] = Put(after[n - 1], order[n], written[order[n]])
<1> DEFINE one == [n \in 0..Len(order) |-> IF n = 0 THEN base
                                           ELSE Put(after[n - 1], order[n], written[order[n]])]
<1>1. after = one
  BY DEF Writing
<1>2. /\ one[0] = base
      /\ \A n \in 1..Len(order) : one[n] = Put(after[n - 1], order[n], written[order[n]])
  OBVIOUS
<1> HIDE DEF one
<1> QED
  BY <1>1, <1>2

\* The contexts exist, for every order.
LEMMA WritingExists ==
  ASSUME NEW base, NEW written, NEW order, Len(order) \in Nat
  PROVE  \E after : Writing(base, written, order, after)
<1> DEFINE Upto(m, after) ==
             after = [n \in 0..m |-> IF n = 0 THEN base ELSE Put(after[n - 1], order[n], written[order[n]])]
           T == {m \in Nat : \E after : Upto(m, after)}
<1>1. 0 \in T
  <2>1. Upto(0, [n \in 0..0 |-> base])
    OBVIOUS
  <2> QED
    BY <2>1
<1>2. ASSUME NEW m \in 0..Len(order), m \in T
      PROVE  m + 1 \in T
  <2>1. PICK after : Upto(m, after)
    BY <1>2
  <2> DEFINE more == [n \in 0..m + 1 |-> IF n < m + 1 THEN after[n]
                                         ELSE Put(after[m], order[m + 1], written[order[m + 1]])]
  <2>2. \A n \in 0..m : after[n] = IF n = 0 THEN base ELSE Put(after[n - 1], order[n], written[order[n]])
    BY <2>1
  <2>3. \A n \in 1..m + 1 : more[n - 1] = after[n - 1]
    OBVIOUS
  <2>4. \A n \in 0..m + 1 : more[n] = IF n = 0 THEN base ELSE Put(more[n - 1], order[n], written[order[n]])
    BY <2>2, <2>3
  <2>5. Upto(m + 1, more)
    BY <2>4
  <2> HIDE DEF more, Upto
  <2> QED
    BY <2>5
<1>3. 0..Len(order) \subseteq T
  BY <1>1, <1>2, CountUp, Zenon
<1>4. Len(order) \in T
  BY <1>3
<1> QED
  BY <1>4 DEF Writing

\* What Replay returns, in terms of these contexts.
LEMMA ReplayWrites ==
  ASSUME NEW base, NEW written, NEW order, Len(order) \in Nat
  PROVE  \E after : /\ Writing(base, written, order, after)
                    /\ Replay(base, written, order) =
                         IF \E n \in 1..Len(order) : written[order[n]] # Absent /\ Blocked(after[n - 1], order[n])
                         THEN Failed ELSE Outcome(TRUE, after[Len(order)], written)
<1> DEFINE it == CHOOSE after : Writing(base, written, order, after)
<1>1. Writing(base, written, order, it)
  BY WritingExists
<1>2. Replay(base, written, order) =
        IF \E n \in 1..Len(order) : written[order[n]] # Absent /\ Blocked(it[n - 1], order[n])
        THEN Failed ELSE Outcome(TRUE, it[Len(order)], written)
  BY DEF Replay, Writing
<1> QED
  BY <1>1, <1>2

\* Writes to the paths of D, in some order, from the context base.
Writes(D, base, written, order, after) ==
  /\ D \subseteq Paths /\ \A p \in D : IsDocument(written[p])
  /\ IsDocument(base) /\ order \in Seq(D) /\ Writing(base, written, order, after)

LEMMA WriteFacts ==
  ASSUME NEW D, NEW base, NEW written, NEW order, NEW after, Writes(D, base, written, order, after)
  PROVE  /\ Len(order) \in Nat /\ after[0] = base /\ IsDocument(base)
         /\ \A n \in 1..Len(order) :
              /\ order[n] \in D /\ order[n] \in Paths /\ IsDocument(written[order[n]])
              /\ after[n] = Put(after[n - 1], order[n], written[order[n]])
<1>1. Len(order) \in Nat /\ \A n \in 1..Len(order) : order[n] \in D
  BY DEF Writes
<1>2. /\ after[0] = base
      /\ \A n \in 1..Len(order) : after[n] = Put(after[n - 1], order[n], written[order[n]])
  <2>1. Writing(base, written, order, after)
    BY DEF Writes
  <2> QED
    BY <1>1, <2>1, WritingUnfolds
<1> QED
  BY <1>1, <1>2 DEF Writes

\* Every context of a replay is a document.
LEMMA WritesDocuments ==
  ASSUME NEW D, NEW base, NEW written, NEW order, NEW after, Writes(D, base, written, order, after)
  PROVE  \A n \in 0..Len(order) : IsDocument(after[n])
<1> DEFINE T == {n \in Nat : n <= Len(order) => IsDocument(after[n])}
<1>1. Len(order) \in Nat /\ 0 \in T
  BY WriteFacts
<1>2. ASSUME NEW n \in 0..Len(order), n \in T /\ n < Len(order)
      PROVE  n + 1 \in T
  <2>1. n + 1 \in 1..Len(order) /\ (n + 1) - 1 = n /\ IsDocument(after[n])
    BY <1>1, <1>2
  <2>2. /\ order[n + 1] \in Paths /\ IsDocument(written[order[n + 1]])
        /\ after[n + 1] = Put(after[n], order[n + 1], written[order[n + 1]])
    BY <2>1, WriteFacts
  <2> QED
    BY <2>1, <2>2, PutLeaves
<1>3. 0..Len(order) \subseteq T
  BY <1>1, <1>2, CountUp, Zenon
<1> QED
  BY <1>1, <1>3

\* Writes that are not above a leaf leave it as it was.
LEMMA LeafUntouched ==
  ASSUME NEW D, NEW base, NEW written, NEW order, NEW after, Writes(D, base, written, order, after),
         NEW p \in Paths, NEW i \in 0..Len(order), NEW j \in i..Len(order),
         \A n \in i + 1..j : ~IsPrefix(order[n], p)
  PROVE  Same(after[j], p, after[i], p)
<1>0. Len(order) \in Nat
  BY WriteFacts
<1> DEFINE T == {m \in Nat : m <= j - i => Same(after[i + m], p, after[i], p)}
<1>1. j - i \in Nat /\ 0 \in T
  BY <1>0 DEF Same
<1>2. ASSUME NEW m \in 0..j - i, m \in T /\ m < j - i
      PROVE  m + 1 \in T
  <2> DEFINE n == i + (m + 1)
  <2>1. n \in 1..Len(order) /\ n \in i + 1..j /\ n - 1 = i + m /\ n - 1 \in 0..Len(order)
    BY <1>0, <1>1, <1>2
  <2>2. Same(after[n - 1], p, after[i], p)
    BY <1>2, <2>1
  <2> HIDE DEF n
  <2>3. /\ order[n] \in Paths /\ IsDocument(written[order[n]]) /\ IsDocument(after[n - 1])
        /\ after[n] = Put(after[n - 1], order[n], written[order[n]])
    BY <2>1, WriteFacts, WritesDocuments
  <2>4. Same(after[n], p, after[n - 1], p)
    BY <2>1, <2>3, PutLeaves
  <2>5. Same(after[n], p, after[i], p)
    BY <2>2, <2>4 DEF Same
  <2> QED
    BY <2>5 DEF n
<1>3. 0..j - i \subseteq T
  BY <1>1, <1>2, CountUp, Zenon
<1>4. j - i \in T /\ i + (j - i) = j
  <2>1. j - i \in 0..j - i /\ i + (j - i) = j
    BY <1>0, <1>1
  <2> HIDE DEF T
  <2> QED
    BY <1>3, <2>1
<1> QED
  BY <1>1, <1>4

\* The last write above a leaf decides it.
LEMMA LastWriteDecides ==
  ASSUME NEW D, NEW base, NEW written, NEW order, NEW after, Writes(D, base, written, order, after),
         NEW p \in Paths, NEW i \in 1..Len(order), NEW j \in i..Len(order),
         IsPrefix(order[i], p), \A n \in i + 1..j : ~IsPrefix(order[n], p)
  PROVE  Same(after[j], p, written[order[i]], Suffix(p, order[i]))
<1>0. Len(order) \in Nat /\ i \in 0..Len(order) /\ i - 1 \in 0..Len(order)
  BY WriteFacts
<1>1. Same(after[j], p, after[i], p)
  BY <1>0, LeafUntouched
<1>2. /\ order[i] \in Paths /\ IsDocument(written[order[i]]) /\ IsDocument(after[i - 1])
      /\ after[i] = Put(after[i - 1], order[i], written[order[i]])
  BY <1>0, WriteFacts, WritesDocuments
<1>3. Same(after[i], p, written[order[i]], Suffix(p, order[i]))
  BY <1>2, PutLeaves
<1> QED
  BY <1>1, <1>3 DEF Same

\* A leaf that was not written above is as it was; else one of the writes is the last.
LEMMA LeafDecided ==
  ASSUME NEW D, NEW base, NEW written, NEW order, NEW after, Writes(D, base, written, order, after),
         NEW p \in Paths, NEW j \in 0..Len(order)
  PROVE  \/ /\ \A n \in 1..j : ~IsPrefix(order[n], p)
            /\ Same(after[j], p, base, p)
         \/ \E i \in 1..j : /\ IsPrefix(order[i], p) /\ \A n \in i + 1..j : ~IsPrefix(order[n], p)
                            /\ Same(after[j], p, written[order[i]], Suffix(p, order[i]))
<1>0. Len(order) \in Nat /\ after[0] = base
  BY WriteFacts
<1>1. CASE \A n \in 1..j : ~IsPrefix(order[n], p)
  <2>1. 0 \in 0..Len(order) /\ j \in 0..Len(order) /\ \A n \in 0 + 1..j : ~IsPrefix(order[n], p)
    BY <1>0, <1>1
  <2>2. Same(after[j], p, after[0], p)
    BY <2>1, LeafUntouched
  <2> QED
    BY <1>0, <1>1, <2>2
<1>2. CASE \E n \in 1..j : IsPrefix(order[n], p)
  <2> DEFINE T == {m \in 0..j : j - m \in 1..j /\ IsPrefix(order[j - m], p)}
  <2>1. T \in SUBSET Nat /\ T # {}
    <3>1. PICK n \in 1..j : IsPrefix(order[n], p)
      BY <1>2
    <3>2. j - n \in 0..j /\ j - (j - n) = n
      BY <1>0
    <3>3. j - n \in T
      BY <3>1, <3>2
    <3>4. T \in SUBSET Nat
      BY <1>0
    <3> QED
      BY <3>3, <3>4
  <2>2. PICK m \in T : \A k \in T : m <= k
    BY <2>1, LeastNumber, Zenon
  <2> DEFINE i == j - m
  <2>3. i \in 1..j /\ IsPrefix(order[i], p)
    BY <2>2
  <2>4. \A n \in i + 1..j : ~IsPrefix(order[n], p)
    <3> SUFFICES ASSUME NEW n \in i + 1..j, IsPrefix(order[n], p) PROVE FALSE
      OBVIOUS
    <3>1. j - n \in 0..j /\ j - (j - n) = n /\ n \in 1..j /\ ~(m <= j - n)
      BY <1>0, <2>2
    <3> QED
      BY <2>2, <3>1
  <2> HIDE DEF i
  <2>5. i \in 1..Len(order) /\ j \in i..Len(order)
    BY <1>0, <2>3
  <2>6. Same(after[j], p, written[order[i]], Suffix(p, order[i]))
    BY <2>3, <2>4, <2>5, LastWriteDecides
  <2> QED
    BY <2>3, <2>4, <2>6
<1> QED
  BY <1>1, <1>2

-------------------------------------------------------------------------------
(* The orders of the writes of a join.                                      *)

\* A parent comes before its children.
ParentsFirst(order) ==
  \A i, j \in 1..Len(order) : i < j => ~IsStrictPrefix(order[j], order[i])

\* Every path of D is written.
Lists(order, D) == \A p \in D : \E i \in 1..Len(order) : order[i] = p

\* The first i writes hold all that are above p.
HoldsAbove(D, order, i, p) == \A q \in D : IsPrefix(q, p) => \E n \in 1..i : order[n] = q

\* An order of a finite set of paths lists each of them once.
LEMMA OrderLists ==
  ASSUME NEW D, IsFiniteSet(D), NEW order \in SetToSeqs(D)
  PROVE  /\ order \in Seq(D) /\ Len(order) = Cardinality(D) /\ Len(order) \in Nat
         /\ Lists(order, D)
<1> DEFINE n == Cardinality(D)
<1>1. n \in Nat
  BY FS_CardinalityType
<1>2. order \in [1..n -> D] /\ \A i, j \in 1..n : i # j => order[i] # order[j]
  BY DEF SetToSeqs
<1> HIDE DEF n
<1>3. order \in Seq(D) /\ Len(order) = n
  BY <1>1, <1>2, SeqDef
<1>4. order \in Injection(1..n, D)
  BY <1>2 DEF Injection, IsInjective
<1>5. Cardinality(1..n) = n
  BY <1>1, FS_Interval
<1>6. order \in Surjection(1..n, D)
  BY <1>4, <1>5, FS_Injection DEF n
<1> QED
  BY <1>1, <1>3, <1>6 DEF Surjection, n, Lists

\* A finite set of paths has an order in which parents come first.
LEMMA ParentsFirstExists ==
  ASSUME NEW D \in SUBSET Paths, IsFiniteSet(D)
  PROVE  \E order \in SetToSeqs(D) : ParentsFirst(order)
<1> DEFINE Listed(S) == \E order \in SetToSeqs(S) : ParentsFirst(order)
           T == {m \in Nat : \A S \in SUBSET Paths : IsFiniteSet(S) /\ Cardinality(S) = m => Listed(S)}
<1>1. 0 \in T
  <2> SUFFICES ASSUME NEW S \in SUBSET Paths, IsFiniteSet(S), Cardinality(S) = 0
               PROVE  Listed(S)
    OBVIOUS
  <2>1. <<>> \in [1..0 -> S] /\ Len(<<>>) = 0
    <3>1. <<>> \in Seq(S) /\ Len(<<>>) = 0
      BY EmptySeq
    <3> QED
      BY <3>1, LenProperties
  <2>2. <<>> \in SetToSeqs(S)
    BY <2>1 DEF SetToSeqs
  <2>3. ParentsFirst(<<>>)
    BY <2>1 DEF ParentsFirst
  <2> QED
    BY <2>2, <2>3
<1>2. ASSUME NEW m \in Nat, m \in T
      PROVE  m + 1 \in T
  <2> SUFFICES ASSUME NEW S \in SUBSET Paths, IsFiniteSet(S), Cardinality(S) = m + 1
               PROVE  Listed(S)
    OBVIOUS
  <2>1. S # {}
    BY FS_EmptySet
  <2>2. PICK p \in S : \A q \in S : Len(p) <= Len(q)
    <3> DEFINE L == {Len(q) : q \in S}
    <3>1. L \in SUBSET Nat /\ L # {}
      <4>1. \A q \in S : Len(q) \in Nat
        BY DEF Paths
      <4> QED
        BY <2>1, <4>1
    <3>2. PICK k \in L : \A l \in L : k <= l
      BY <3>1, LeastNumber, Zenon
    <3> QED
      BY <3>2
  <2> DEFINE R == S \ {p}
  <2>3. R \in SUBSET Paths /\ IsFiniteSet(R) /\ Cardinality(R) = m
    BY <2>2, FS_RemoveElement
  <2>4. PICK rest \in SetToSeqs(R) : ParentsFirst(rest)
    BY <1>2, <2>3
  <2>5. rest \in [1..m -> R] /\ \A i, j \in 1..m : i # j => rest[i] # rest[j]
    BY <2>3, <2>4 DEF SetToSeqs
  <2>6. Len(rest) = m
    BY <2>3, <2>4, OrderLists, Zenon
  <2> DEFINE order == [i \in 1..m + 1 |-> IF i = 1 THEN p ELSE rest[i - 1]]
  <2>7. \A i \in 1..m + 1 : i # 1 => i - 1 \in 1..m /\ order[i] = rest[i - 1] /\ order[i] \in R
    BY <2>5
  <2>8. order[1] = p
    OBVIOUS
  <2>9. order \in [1..m + 1 -> S]
    BY <2>2, <2>7
  <2> HIDE DEF order
  <2>10. \A i, j \in 1..m + 1 : i # j => order[i] # order[j]
    <3> SUFFICES ASSUME NEW i \in 1..m + 1, NEW j \in 1..m + 1, i # j
                 PROVE  order[i] # order[j]
      OBVIOUS
    <3>1. CASE i = 1 \/ j = 1
      BY <2>7, <2>8, <3>1
    <3>2. CASE i # 1 /\ j # 1
      <4>1. i - 1 # j - 1
        OBVIOUS
      <4> QED
        BY <2>5, <2>7, <3>2, <4>1
    <3> QED
      BY <3>1, <3>2
  <2>11. order \in SetToSeqs(S)
    BY <2>9, <2>10 DEF SetToSeqs
  <2>12. Len(order) = m + 1
    BY <2>11, OrderLists, Zenon
  <2>13. ParentsFirst(order)
    <3> SUFFICES ASSUME NEW i \in 1..m + 1, NEW j \in 1..m + 1, i < j, IsStrictPrefix(order[j], order[i])
                 PROVE  FALSE
      BY <2>12 DEF ParentsFirst
    <3>1. order[j] \in S /\ order[j] \in Paths /\ order[i] \in Paths
      BY <2>9
    <3>2. CASE i = 1
      BY <2>2, <2>8, <3>1, <3>2, PrefixAntisymmetric DEF IsStrictPrefix
    <3>3. CASE i # 1
      <4>1. i - 1 \in 1..m /\ j - 1 \in 1..m /\ i - 1 < j - 1
        BY <3>3
      <4>2. order[i] = rest[i - 1] /\ order[j] = rest[j - 1]
        BY <2>7, <3>3
      <4> QED
        BY <2>4, <2>6, <4>1, <4>2 DEF ParentsFirst
    <3> QED
      BY <3>2, <3>3
  <2> QED
    BY <2>11, <2>13
<1>3. Cardinality(D) \in Nat
  BY FS_CardinalityType
<1>4. \A i \in 0..Cardinality(D) : i \in T /\ i < Cardinality(D) => i + 1 \in T
  BY <1>2
<1> HIDE DEF T
<1>5. 0..Cardinality(D) \subseteq T
  BY <1>1, <1>3, <1>4, CountUp, Zenon
<1>6. Cardinality(D) \in T
  BY <1>3, <1>5
<1> QED
  BY <1>6 DEF T

\* The last write above a leaf is the deepest, if parents come first.
LEMMA LastIsDeepest ==
  ASSUME NEW D \in SUBSET Paths, NEW order \in Seq(D), ParentsFirst(order), NEW p \in Paths,
         NEW j \in 0..Len(order), NEW i \in 1..j,
         IsPrefix(order[i], p), \A n \in i + 1..j : ~IsPrefix(order[n], p),
         NEW k \in 1..j, IsPrefix(order[k], p)
  PROVE  IsPrefix(order[k], order[i])
<1> SUFFICES ASSUME ~IsPrefix(order[k], order[i]) PROVE FALSE
  OBVIOUS
<1>1. /\ i \in 1..Len(order) /\ k \in 1..Len(order)
      /\ order[i] \in Paths /\ order[k] \in Paths
  OBVIOUS
<1>2. IsPrefix(order[i], order[k]) /\ order[i] # order[k]
  BY <1>1, PrefixesCompare, PrefixReflexive
<1>3. k < i
  <2>1. k \notin i + 1..j
    OBVIOUS
  <2>2. k # i
    BY <1>2
  <2> QED
    BY <2>1, <2>2
<1> QED
  BY <1>1, <1>2, <1>3 DEF ParentsFirst, IsStrictPrefix

\* Two orders with parents first agree on a leaf, once both made every write above it.
LEMMA OrdersAgree ==
  ASSUME NEW D, NEW base, NEW written,
         NEW one, NEW afterOne, Writes(D, base, written, one, afterOne), ParentsFirst(one),
         NEW two, NEW afterTwo, Writes(D, base, written, two, afterTwo), ParentsFirst(two),
         NEW p \in Paths, NEW i \in 0..Len(one), NEW j \in 0..Len(two),
         HoldsAbove(D, one, i, p), HoldsAbove(D, two, j, p)
  PROVE  Same(afterOne[i], p, afterTwo[j], p)
<1>1. /\ D \in SUBSET Paths /\ one \in Seq(D) /\ two \in Seq(D)
      /\ \A n \in 1..i : n \in 1..Len(one) /\ one[n] \in D
      /\ \A n \in 1..j : n \in 1..Len(two) /\ two[n] \in D
  BY DEF Writes
<1>2. CASE \A q \in D : ~IsPrefix(q, p)
  <2>1. (\A n \in 1..i : ~IsPrefix(one[n], p)) /\ (\A n \in 1..j : ~IsPrefix(two[n], p))
    BY <1>1, <1>2
  <2>2. Same(afterOne[i], p, base, p) /\ Same(afterTwo[j], p, base, p)
    BY <2>1, LeafDecided
  <2> QED
    BY <2>2 DEF Same
<1>3. CASE \E q \in D : IsPrefix(q, p)
  <2>1. (\E n \in 1..i : IsPrefix(one[n], p)) /\ (\E n \in 1..j : IsPrefix(two[n], p))
    BY <1>3 DEF HoldsAbove
  <2>2. PICK a \in 1..i : /\ IsPrefix(one[a], p) /\ \A n \in a + 1..i : ~IsPrefix(one[n], p)
                          /\ Same(afterOne[i], p, written[one[a]], Suffix(p, one[a]))
    BY <2>1, LeafDecided
  <2>3. PICK b \in 1..j : /\ IsPrefix(two[b], p) /\ \A n \in b + 1..j : ~IsPrefix(two[n], p)
                          /\ Same(afterTwo[j], p, written[two[b]], Suffix(p, two[b]))
    BY <2>1, LeafDecided
  <2>4. one[a] \in D /\ two[b] \in D /\ one[a] \in Paths /\ two[b] \in Paths
    BY <1>1
  <2>5. PICK k \in 1..i : one[k] = two[b]
    BY <2>3, <2>4 DEF HoldsAbove
  <2>6. PICK l \in 1..j : two[l] = one[a]
    BY <2>2, <2>4 DEF HoldsAbove
  <2>7. IsPrefix(two[b], one[a])
    BY <1>1, <2>2, <2>3, <2>5, LastIsDeepest
  <2>8. IsPrefix(one[a], two[b])
    BY <1>1, <2>2, <2>3, <2>6, LastIsDeepest
  <2>9. one[a] = two[b]
    <3>1. Len(one[a]) <= Len(two[b])
      BY <2>4, <2>8, PrefixKeys
    <3> QED
      BY <2>4, <2>7, <3>1, PrefixAntisymmetric
  <2> QED
    BY <2>2, <2>3, <2>9 DEF Same
<1> QED
  BY <1>2, <1>3

\* The writes above a leaf that is above a write come before that write.
LEMMA WritesAboveComeFirst ==
  ASSUME NEW D \in SUBSET Paths, NEW order \in Seq(D), ParentsFirst(order),
         NEW p \in Paths, NEW n \in 1..Len(order), IsStrictPrefix(p, order[n]),
         NEW a \in 1..Len(order), IsPrefix(order[a], p)
  PROVE  a \in 1..n - 1
<1>1. order[n] \in Paths /\ order[a] \in Paths /\ IsPrefix(p, order[n]) /\ p # order[n]
  BY DEF IsStrictPrefix
<1>2. IsPrefix(order[a], order[n])
  BY <1>1, PrefixTransitive
<1>3. order[a] # order[n]
  <2> SUFFICES ASSUME order[a] = order[n] PROVE FALSE
    OBVIOUS
  <2>1. Len(order[n]) <= Len(p)
    BY <1>1, PrefixKeys
  <2> QED
    BY <1>1, <2>1, PrefixAntisymmetric
<1>4. ~(n < a)
  BY <1>2, <1>3 DEF ParentsFirst, IsStrictPrefix
<1> QED
  BY <1>3, <1>4

\* A write that is blocked in one order with parents first is blocked in the other.
LEMMA BlockedAlike ==
  ASSUME NEW D, NEW base, NEW written,
         NEW one, NEW afterOne, Writes(D, base, written, one, afterOne), ParentsFirst(one),
         NEW two, NEW afterTwo, Writes(D, base, written, two, afterTwo), ParentsFirst(two),
         Lists(one, D), Lists(two, D),
         NEW n \in 1..Len(one), written[one[n]] # Absent, Blocked(afterOne[n - 1], one[n])
  PROVE  \E m \in 1..Len(two) : written[two[m]] # Absent /\ Blocked(afterTwo[m - 1], two[m])
<1>1. /\ D \in SUBSET Paths /\ one \in Seq(D) /\ two \in Seq(D) /\ one[n] \in D
      /\ Len(one) \in Nat /\ Len(two) \in Nat
  <2>1. D \in SUBSET Paths /\ one \in Seq(D) /\ two \in Seq(D)
    BY DEF Writes
  <2> QED
    BY <2>1
<1>2. PICK m \in 1..Len(two) : two[m] = one[n]
  BY <1>1 DEF Lists
<1>3. PICK p \in DOMAIN afterOne[n - 1] : IsStrictPrefix(p, one[n])
  BY DEF Blocked
<1>4. n - 1 \in 0..Len(one) /\ m - 1 \in 0..Len(two)
  BY <1>1
<1>5. p \in Paths
  <2>1. IsDocument(afterOne[n - 1])
    BY <1>4, WritesDocuments
  <2> QED
    BY <2>1 DEF IsDocument
<1>6. HoldsAbove(D, one, n - 1, p) /\ HoldsAbove(D, two, m - 1, p)
  <2>0. SUFFICES ASSUME NEW q \in D, IsPrefix(q, p)
                 PROVE  (\E a \in 1..n - 1 : one[a] = q) /\ (\E a \in 1..m - 1 : two[a] = q)
    BY DEF HoldsAbove
  <2>1. PICK a \in 1..Len(one) : one[a] = q
    BY DEF Lists
  <2>2. PICK b \in 1..Len(two) : two[b] = q
    BY DEF Lists
  <2>3. a \in 1..n - 1
    BY <1>1, <1>3, <1>5, <2>0, <2>1, WritesAboveComeFirst
  <2>4. b \in 1..m - 1
    BY <1>1, <1>2, <1>3, <1>5, <2>0, <2>2, WritesAboveComeFirst
  <2> QED
    BY <2>1, <2>2, <2>3, <2>4
<1>7. Same(afterOne[n - 1], p, afterTwo[m - 1], p)
  BY <1>4, <1>5, <1>6, OrdersAgree, Zenon
<1>8. Blocked(afterTwo[m - 1], two[m])
  BY <1>2, <1>3, <1>7 DEF Same, Blocked
<1> QED
  BY <1>2, <1>8

\* So all orders with parents first have one outcome.
LEMMA ReplaysAgree ==
  ASSUME NEW D \in SUBSET Paths, IsFiniteSet(D), NEW base, IsDocument(base),
         NEW written, \A p \in D : IsDocument(written[p]),
         NEW one \in SetToSeqs(D), ParentsFirst(one), NEW two \in SetToSeqs(D), ParentsFirst(two)
  PROVE  Replay(base, written, one) = Replay(base, written, two)
<1>1. /\ one \in Seq(D) /\ Len(one) \in Nat /\ Lists(one, D)
      /\ two \in Seq(D) /\ Len(two) \in Nat /\ Lists(two, D)
  BY OrderLists
<1>2. PICK afterOne : /\ Writing(base, written, one, afterOne)
                      /\ Replay(base, written, one) =
                           IF \E n \in 1..Len(one) : written[one[n]] # Absent /\ Blocked(afterOne[n - 1], one[n])
                           THEN Failed ELSE Outcome(TRUE, afterOne[Len(one)], written)
  BY <1>1, ReplayWrites
<1>3. PICK afterTwo : /\ Writing(base, written, two, afterTwo)
                      /\ Replay(base, written, two) =
                           IF \E n \in 1..Len(two) : written[two[n]] # Absent /\ Blocked(afterTwo[n - 1], two[n])
                           THEN Failed ELSE Outcome(TRUE, afterTwo[Len(two)], written)
  BY <1>1, ReplayWrites
<1>4. Writes(D, base, written, one, afterOne) /\ Writes(D, base, written, two, afterTwo)
  BY <1>1, <1>2, <1>3 DEF Writes
<1>5. (\E n \in 1..Len(one) : written[one[n]] # Absent /\ Blocked(afterOne[n - 1], one[n]))
        <=> (\E n \in 1..Len(two) : written[two[n]] # Absent /\ Blocked(afterTwo[n - 1], two[n]))
  <2>1. ASSUME NEW n \in 1..Len(one), written[one[n]] # Absent, Blocked(afterOne[n - 1], one[n])
        PROVE  \E m \in 1..Len(two) : written[two[m]] # Absent /\ Blocked(afterTwo[m - 1], two[m])
    BY <1>1, <1>4, <2>1, BlockedAlike
  <2>2. ASSUME NEW n \in 1..Len(two), written[two[n]] # Absent, Blocked(afterTwo[n - 1], two[n])
        PROVE  \E m \in 1..Len(one) : written[one[m]] # Absent /\ Blocked(afterOne[m - 1], one[m])
    BY <1>1, <1>4, <2>2, BlockedAlike
  <2> QED
    BY <2>1, <2>2
<1>6. afterOne[Len(one)] = afterTwo[Len(two)]
  <2>1. Len(one) \in 0..Len(one) /\ Len(two) \in 0..Len(two)
    BY <1>1
  <2>2. IsDocument(afterOne[Len(one)]) /\ IsDocument(afterTwo[Len(two)])
    BY <1>4, <2>1, WritesDocuments
  <2>3. ASSUME NEW p \in Paths
        PROVE  Same(afterOne[Len(one)], p, afterTwo[Len(two)], p)
    <3>1. HoldsAbove(D, one, Len(one), p) /\ HoldsAbove(D, two, Len(two), p)
      BY <1>1 DEF Lists, HoldsAbove
    <3> QED
      BY <1>4, <2>1, <3>1, OrdersAgree, Zenon
  <2> QED
    BY <2>2, <2>3, SameDocuments
<1>7. CASE \E n \in 1..Len(one) : written[one[n]] # Absent /\ Blocked(afterOne[n - 1], one[n])
  <2>1. Replay(base, written, one) = Failed
    BY <1>2, <1>7, Zenon
  <2>2. Replay(base, written, two) = Failed
    BY <1>3, <1>5, <1>7, Zenon
  <2> QED
    BY <2>1, <2>2
<1>8. CASE ~\E n \in 1..Len(one) : written[one[n]] # Absent /\ Blocked(afterOne[n - 1], one[n])
  <2>1. Replay(base, written, one) = Outcome(TRUE, afterOne[Len(one)], written)
    BY <1>2, <1>8, Zenon
  <2>2. Replay(base, written, two) = Outcome(TRUE, afterTwo[Len(two)], written)
    BY <1>3, <1>5, <1>8, Zenon
  <2> QED
    BY <1>6, <2>1, <2>2
<1> QED
  BY <1>7, <1>8

\* A write that no other is above or below is what is read there at the end.
LEMMA WriteIsKept ==
  ASSUME NEW D, NEW base, NEW written, NEW order, NEW after, Writes(D, base, written, order, after),
         NEW k \in 1..Len(order),
         \A q \in D : q # order[k] => ~IsPrefix(q, order[k]) /\ ~IsPrefix(order[k], q)
  PROVE  GetValue(after[Len(order)], order[k]) = written[order[k]]
<1> DEFINE path == order[k]
           doc == after[Len(order)]
<1>1. /\ Len(order) \in Nat /\ Len(order) \in 0..Len(order) /\ path \in Paths /\ IsDocument(written[path])
      /\ IsDocument(doc) /\ \A n \in 1..Len(order) : order[n] \in D /\ order[n] \in Paths
  BY WriteFacts, WritesDocuments
<1> HIDE DEF doc
<1>2. ASSUME NEW p \in Paths, IsPrefix(path, p)
      PROVE  Same(doc, p, written[path], Suffix(p, path))
  <2>1. \A n \in 1..Len(order) : IsPrefix(order[n], p) => order[n] = path
    BY <1>1, <1>2, PrefixesCompare
  <2>2. PICK i \in 1..Len(order) : IsPrefix(order[i], p) /\ Same(doc, p, written[order[i]], Suffix(p, order[i]))
    BY <1>1, <1>2, LeafDecided DEF doc
  <2> QED
    BY <2>1, <2>2
<1>3. ASSUME NEW s \in Paths
      PROVE  Same(GetValue(doc, path), s, written[path], s)
  <2>1. path \o s \in Paths /\ IsPrefix(path, path \o s) /\ Suffix(path \o s, path) = s
    BY <1>1, SuffixOfConcat
  <2>2. Same(doc, path \o s, written[path], s)
    BY <1>2, <2>1
  <2>3. Same(GetValue(doc, path), s, doc, path \o s)
    BY <1>1, GetValueLeaves
  <2> QED
    BY <2>2, <2>3 DEF Same
<1>4. IsDocument(GetValue(doc, path))
  BY <1>1, GetValueLeaves
<1> QED
  BY <1>1, <1>3, <1>4, SameDocuments DEF doc

-------------------------------------------------------------------------------
(* The outcomes of a merge.                                                 *)

\* The writes of all branches, where none conflicts, are those of each.
LEMMA AllWritesFacts ==
  ASSUME NEW writes, \A w \in writes : IsWrites(w)
  PROVE  /\ DOMAIN AllWrites(writes) \in SUBSET Paths
         /\ \A p \in DOMAIN AllWrites(writes) : IsDocument(AllWrites(writes)[p])
         /\ \A w \in writes : \A p \in DOMAIN w :
              /\ p \in DOMAIN AllWrites(writes)
              /\ ~WritesConflict(writes) => AllWrites(writes)[p] = w[p]
         /\ \A p \in DOMAIN AllWrites(writes) : \E w \in writes : p \in DOMAIN w
<1> DEFINE D == UNION {DOMAIN w : w \in writes}
           all == AllWrites(writes)
<1>1. /\ DOMAIN all = D
      /\ \A p \in D : all[p] = (CHOOSE w \in writes : p \in DOMAIN w)[p]
  BY DEF AllWrites
<1>2. D \in SUBSET Paths
  BY DEF IsWrites
<1>3. \A p \in D : \E w \in writes : p \in DOMAIN w
  OBVIOUS
<1>4. \A w \in writes : \A p \in DOMAIN w : p \in D
  OBVIOUS
<1> HIDE DEF D, all
<1>5. \A p \in D : \E w \in writes : p \in DOMAIN w /\ all[p] = w[p]
  <2> SUFFICES ASSUME NEW p \in D PROVE \E w \in writes : p \in DOMAIN w /\ all[p] = w[p]
    OBVIOUS
  <2> DEFINE v == CHOOSE w \in writes : p \in DOMAIN w
  <2>1. v \in writes /\ p \in DOMAIN v
    BY <1>3
  <2>2. all[p] = v[p]
    BY <1>1
  <2> HIDE DEF v
  <2> QED
    BY <2>1, <2>2
<1>6. \A p \in D : IsDocument(all[p])
  BY <1>5 DEF IsWrites
<1>7. ASSUME ~WritesConflict(writes), NEW w \in writes, NEW p \in DOMAIN w
      PROVE  all[p] = w[p]
  <2>1. PICK v \in writes : p \in DOMAIN v /\ all[p] = v[p]
    BY <1>4, <1>5
  <2> QED
    BY <1>7, <2>1 DEF WritesConflict
<1> QED
  BY <1>1, <1>2, <1>3, <1>4, <1>6, <1>7 DEF all

\* The outcome m of writes that do not conflict, made in some order.
MadeBy(base, all, m) ==
  \E order, after : /\ Writes(DOMAIN all, base, all, order, after) /\ Lists(order, DOMAIN all)
                    /\ m = Outcome(TRUE, after[Len(order)], all)

\* An outcome of a merge is a failure, or that of the writes in some order.
LEMMA MergeOutcomes ==
  ASSUME NEW base, IsDocument(base), NEW writes, \A w \in writes : IsWrites(w),
         IsFiniteSet(DOMAIN AllWrites(writes)), NEW sorted, NEW m \in MergeTokens(base, writes, sorted), m.ok
  PROVE  ~WritesConflict(writes) /\ MadeBy(base, AllWrites(writes), m)
<1> DEFINE all == AllWrites(writes)
           D == DOMAIN all
<1>1. D \in SUBSET Paths /\ \A p \in D : IsDocument(all[p])
  BY AllWritesFacts
<1>2. Failed.ok = FALSE
  BY DEF Failed, Outcome
<1>3. ~WritesConflict(writes)
  <2> SUFFICES ASSUME WritesConflict(writes) PROVE FALSE
    OBVIOUS
  <2>1. m \in {Failed}
    BY DEF MergeTokens
  <2> QED
    BY <1>2, <2>1
<1>4. PICK order \in WriteOrders(D, sorted) : m = Replay(base, all, order)
  BY <1>3 DEF MergeTokens
<1>5. order \in Seq(D) /\ Len(order) \in Nat /\ Lists(order, D)
  BY <1>4, OrderLists DEF WriteOrders
<1> HIDE DEF all, D
<1>6. PICK after : /\ Writing(base, all, order, after)
                   /\ Replay(base, all, order) =
                        IF \E n \in 1..Len(order) : all[order[n]] # Absent /\ Blocked(after[n - 1], order[n])
                        THEN Failed ELSE Outcome(TRUE, after[Len(order)], all)
  BY <1>5, ReplayWrites
<1>7. m = Outcome(TRUE, after[Len(order)], all)
  BY <1>2, <1>4, <1>6
<1>8. Writes(D, base, all, order, after)
  BY <1>1, <1>5, <1>6 DEF Writes
<1> QED
  BY <1>3, <1>5, <1>7, <1>8 DEF all, D, MadeBy

\* What a merge hands on is a document again, and writes.
LEMMA MergeCarries ==
  ASSUME NEW base, IsDocument(base), NEW writes, \A w \in writes : IsWrites(w),
         IsFiniteSet(DOMAIN AllWrites(writes)), NEW sorted, NEW m \in MergeTokens(base, writes, sorted), m.ok
  PROVE  IsDocument(m.context) /\ IsWrites(m.writes)
<1>1. PICK order, after :
        /\ Writes(DOMAIN AllWrites(writes), base, AllWrites(writes), order, after)
        /\ Lists(order, DOMAIN AllWrites(writes))
        /\ m = Outcome(TRUE, after[Len(order)], AllWrites(writes))
  <2>1. MadeBy(base, AllWrites(writes), m)
    BY MergeOutcomes
  <2> QED
    BY <2>1 DEF MadeBy
<1>2. m.context = after[Len(order)] /\ m.writes = AllWrites(writes)
  BY <1>1 DEF Outcome
<1>3. IsDocument(after[Len(order)])
  <2>1. Len(order) \in Nat
    BY <1>1, WriteFacts
  <2> QED
    BY <1>1, <2>1, WritesDocuments
<1>4. IsWrites(AllWrites(writes))
  BY AllWritesFacts DEF IsWrites
<1> QED
  BY <1>2, <1>3, <1>4

\* A merge that sorts has one outcome.
LEMMA SortedMergeHasOneOutcome ==
  ASSUME NEW base, IsDocument(base), NEW writes, \A w \in writes : IsWrites(w),
         IsFiniteSet(DOMAIN AllWrites(writes)), NEW sorted, sorted
  PROVE  Cardinality(MergeTokens(base, writes, sorted)) = 1
<1> DEFINE all == AllWrites(writes)
           D == DOMAIN all
<1>1. D \in SUBSET Paths /\ IsFiniteSet(D) /\ \A p \in D : IsDocument(all[p])
  BY AllWritesFacts
<1>2. CASE WritesConflict(writes)
  <2>1. MergeTokens(base, writes, sorted) = {Failed}
    BY <1>2 DEF MergeTokens
  <2> QED
    BY <2>1, FS_Singleton
<1>3. CASE ~WritesConflict(writes)
  <2>1. MergeTokens(base, writes, sorted) = {Replay(base, all, order) : order \in WriteOrders(D, sorted)}
    BY <1>3 DEF MergeTokens
  <2> HIDE DEF all, D
  <2>2. \A order : order \in WriteOrders(D, sorted) <=> order \in SetToSeqs(D) /\ ParentsFirst(order)
    BY DEF WriteOrders, ParentsFirst
  <2>3. PICK one \in WriteOrders(D, sorted) : TRUE
    BY <1>1, <2>2, ParentsFirstExists
  <2>4. ASSUME NEW order \in WriteOrders(D, sorted)
        PROVE  Replay(base, all, order) = Replay(base, all, one)
    <3>1. order \in SetToSeqs(D) /\ ParentsFirst(order) /\ one \in SetToSeqs(D) /\ ParentsFirst(one)
      BY <2>2, <2>3
    <3> QED
      BY <1>1, <3>1, ReplaysAgree, Zenon
  <2>5. MergeTokens(base, writes, sorted) = {Replay(base, all, one)}
    BY <2>1, <2>4
  <2> QED
    BY <2>5, FS_Singleton
<1> QED
  BY <1>2, <1>3

\* A merge keeps what a branch wrote, if no branch wrote above or below it.
LEMMA MergeKeepsWrites ==
  ASSUME NEW base, IsDocument(base), NEW writes, \A w \in writes : IsWrites(w),
         IsFiniteSet(DOMAIN AllWrites(writes)), NEW sorted, NEW m \in MergeTokens(base, writes, sorted), m.ok,
         NEW w \in writes, \A v \in writes : Disjoint(w, v), NEW path \in DOMAIN w
  PROVE  GetValue(m.context, path) = w[path]
<1> DEFINE all == AllWrites(writes)
           D == DOMAIN all
<1>1. /\ path \in D /\ \A q \in D : \E v \in writes : q \in DOMAIN v
      /\ ~WritesConflict(writes) => all[path] = w[path]
  BY AllWritesFacts
<1>2. ~WritesConflict(writes) /\ MadeBy(base, all, m)
  BY MergeOutcomes
<1>3. PICK order, after : /\ Writes(D, base, all, order, after) /\ Lists(order, D)
                          /\ m = Outcome(TRUE, after[Len(order)], all)
  BY <1>2 DEF MadeBy
<1> HIDE DEF all, D
<1>4. PICK k \in 1..Len(order) : order[k] = path
  BY <1>1, <1>3 DEF Lists
<1>5. ASSUME NEW q \in D, q # path
      PROVE  ~IsPrefix(q, path) /\ ~IsPrefix(path, q)
  <2>1. PICK v \in writes : q \in DOMAIN v
    BY <1>1
  <2> QED
    BY <1>5, <2>1 DEF Disjoint, IsStrictPrefix
<1>6. GetValue(after[Len(order)], path) = all[path]
  BY <1>3, <1>4, <1>5, WriteIsKept
<1>7. m.context = after[Len(order)]
  BY <1>3 DEF Outcome
<1> QED
  BY <1>1, <1>2, <1>6, <1>7

-------------------------------------------------------------------------------
(* What the tokens carry.                                                   *)

\* The documents of the scenario.
LEMMA ScenarioDocuments ==
  ASSUME CallInv
  PROVE  /\ IsDocument(scenario.input) /\ scenario.sorted \in BOOLEAN /\ Len(scenario.variables) \in Nat
         /\ \A v \in 1..Len(scenario.variables) :
              scenario.variables[v].path \in Paths /\ IsDocument(scenario.variables[v].value)
         /\ \A n \in Nodes :
              /\ Len(Node(n).operations) \in Nat
              /\ \A o \in 1..Len(Node(n).operations) :
                   /\ Node(n).operations[o].path \in Paths /\ Node(n).operations[o].from \in Paths
                   /\ IsDocument(Node(n).operations[o].value)
BY ScenarioAssumption DEF CallInv, Executable, Nodes, Node

\* The defaults of the variables leave a document.
LEMMA DefaultsDocument ==
  ASSUME NEW doc, IsDocument(doc), NEW variables, Len(variables) \in Nat,
         \A v \in 1..Len(variables) : variables[v].path \in Paths /\ IsDocument(variables[v].value)
  PROVE  IsDocument(WithVariableDefaults(variables, doc))
<1> DEFINE Upto(m, after) ==
             after = [n \in 0..m |-> IF n = 0 THEN doc ELSE SetDefault(after[n - 1], variables[n])]
           T == {m \in Nat : \E after : Upto(m, after)}
<1>1. 0 \in T
  <2>1. Upto(0, [n \in 0..0 |-> doc])
    OBVIOUS
  <2> QED
    BY <2>1
<1>2. ASSUME NEW m \in 0..Len(variables), m \in T
      PROVE  m + 1 \in T
  <2>1. PICK after : Upto(m, after)
    BY <1>2
  <2> DEFINE more == [n \in 0..m + 1 |-> IF n < m + 1 THEN after[n]
                                         ELSE SetDefault(after[m], variables[m + 1])]
  <2>2. \A n \in 0..m : after[n] = IF n = 0 THEN doc ELSE SetDefault(after[n - 1], variables[n])
    BY <2>1
  <2>3. \A n \in 1..m + 1 : more[n - 1] = after[n - 1]
    OBVIOUS
  <2>4. \A n \in 0..m + 1 : more[n] = IF n = 0 THEN doc ELSE SetDefault(more[n - 1], variables[n])
    BY <2>2, <2>3
  <2>5. Upto(m + 1, more)
    BY <2>4
  <2> HIDE DEF more, Upto
  <2> QED
    BY <2>5
<1>3. 0..Len(variables) \subseteq T
  BY <1>1, <1>2, CountUp, Zenon
<1> DEFINE it == CHOOSE after : Upto(Len(variables), after)
<1>4. Upto(Len(variables), it)
  <2>1. Len(variables) \in T
    BY <1>3
  <2>2. \E after : Upto(Len(variables), after)
    BY <2>1
  <2> HIDE DEF Upto
  <2> QED
    BY <2>2
<1>5. WithVariableDefaults(variables, doc) = it[Len(variables)]
  BY DEF WithVariableDefaults
<1> HIDE DEF it, T
<1>6. /\ it[0] = doc
      /\ \A n \in 1..Len(variables) : it[n] = SetDefault(it[n - 1], variables[n])
  <2> DEFINE one == [n \in 0..Len(variables) |-> IF n = 0 THEN doc ELSE SetDefault(it[n - 1], variables[n])]
  <2>1. it = one
    BY <1>4
  <2>2. one[0] = doc /\ \A n \in 1..Len(variables) : one[n] = SetDefault(it[n - 1], variables[n])
    OBVIOUS
  <2> HIDE DEF one
  <2> QED
    BY <2>1, <2>2
<1> DEFINE D == {n \in Nat : n <= Len(variables) => IsDocument(it[n])}
<1>7. 0 \in D
  BY <1>6
<1>8. ASSUME NEW n \in 0..Len(variables), n \in D /\ n < Len(variables)
      PROVE  n + 1 \in D
  <2>1. n + 1 \in 1..Len(variables) /\ (n + 1) - 1 = n /\ IsDocument(it[n])
    BY <1>8
  <2>2. it[n + 1] = SetDefault(it[n], variables[n + 1])
    BY <1>6, <2>1
  <2>3. variables[n + 1].path \in Paths /\ IsDocument(variables[n + 1].value)
    BY <2>1
  <2>4. IsDocument(it[n + 1])
    BY <2>1, <2>2, <2>3, SetValueLeaves DEF SetDefault
  <2> QED
    BY <2>1, <2>4
<1>9. 0..Len(variables) \subseteq D
  BY <1>7, <1>8, CountUp, Zenon
<1>10. IsDocument(it[Len(variables)])
  BY <1>9
<1> QED
  BY <1>5, <1>10

\* One write more is recorded.
LEMMA RecordedWrites ==
  ASSUME NEW writes, IsWrites(writes), NEW path \in Paths, NEW value, IsDocument(value)
  PROVE  IsWrites(Recorded(writes, path, value))
<1> DEFINE r == Recorded(writes, path, value)
<1>1. /\ DOMAIN r = DOMAIN writes \cup {path}
      /\ \A p \in DOMAIN r : r[p] = IF p = path THEN value ELSE writes[p]
  BY DEF Recorded
<1>2. IsFiniteSet(DOMAIN writes \cup {path})
  BY FS_AddElement DEF IsWrites
<1> HIDE DEF r
<1>3. IsWrites(r)
  BY <1>1, <1>2 DEF IsWrites
<1> QED
  BY <1>3 DEF r

\* An operation that does not fail leaves a document, and writes.
LEMMA OperationCarries ==
  ASSUME NEW s, s.ok => IsDocument(s.context) /\ IsWrites(s.writes),
         NEW op, op.path \in Paths, op.from \in Paths, IsDocument(op.value)
  PROVE  LET r == ApplyOperation(s, op) IN r.ok => IsDocument(r.context) /\ IsWrites(r.writes)
<1> DEFINE r == ApplyOperation(s, op)
           value == IF op.op = "copy" THEN GetValue(s.context, op.from) ELSE op.value
<1> SUFFICES ASSUME r.ok PROVE IsDocument(r.context) /\ IsWrites(r.writes)
  OBVIOUS
<1>1. Failed.ok = FALSE
  BY DEF Failed, Outcome
<1>2. \/ r = Failed
      \/ s.ok /\ r = Outcome(TRUE, DeleteValue(s.context, op.path), Recorded(s.writes, op.path, Absent))
      \/ s.ok /\ r = Outcome(TRUE, SetValue(s.context, op.path, value), Recorded(s.writes, op.path, value))
  BY DEF ApplyOperation
<1>3. s.ok
  BY <1>1, <1>2
<1>4. IsDocument(value)
  BY <1>3, GetValueLeaves
<1> HIDE DEF r, value
<1>5. CASE r = Outcome(TRUE, DeleteValue(s.context, op.path), Recorded(s.writes, op.path, Absent))
  <2>1. r.context = DeleteValue(s.context, op.path) /\ r.writes = Recorded(s.writes, op.path, Absent)
    BY <1>5 DEF Outcome
  <2> QED
    BY <1>3, <2>1, DeleteValueLeaves, RecordedWrites, AbsentDocument
<1>6. CASE r = Outcome(TRUE, SetValue(s.context, op.path, value), Recorded(s.writes, op.path, value))
  <2>1. r.context = SetValue(s.context, op.path, value) /\ r.writes = Recorded(s.writes, op.path, value)
    BY <1>6 DEF Outcome
  <2> QED
    BY <1>3, <1>4, <2>1, SetValueLeaves, RecordedWrites
<1> QED
  BY <1>1, <1>2, <1>5, <1>6

\* So do all operations of a node.
LEMMA OperationsCarry ==
  ASSUME NEW context, IsDocument(context), NEW writes, IsWrites(writes),
         NEW operations, Len(operations) \in Nat,
         \A o \in 1..Len(operations) : /\ operations[o].path \in Paths /\ operations[o].from \in Paths
                                       /\ IsDocument(operations[o].value)
  PROVE  LET r == ApplyOperations(operations, context, writes)
         IN  r.ok => IsDocument(r.context) /\ IsWrites(r.writes)
<1> DEFINE start == Outcome(TRUE, context, writes)
           Upto(m, after) ==
             after = [n \in 0..m |-> IF n = 0 THEN start ELSE ApplyOperation(after[n - 1], operations[n])]
           T == {m \in Nat : \E after : Upto(m, after)}
           Good(r) == r.ok => IsDocument(r.context) /\ IsWrites(r.writes)
<1>0. Good(start)
  BY DEF Outcome
<1> HIDE DEF start
<1>1. 0 \in T
  <2>1. Upto(0, [n \in 0..0 |-> start])
    OBVIOUS
  <2> QED
    BY <2>1
<1>2. ASSUME NEW m \in 0..Len(operations), m \in T
      PROVE  m + 1 \in T
  <2>1. PICK after : Upto(m, after)
    BY <1>2
  <2> DEFINE more == [n \in 0..m + 1 |-> IF n < m + 1 THEN after[n]
                                         ELSE ApplyOperation(after[m], operations[m + 1])]
  <2>2. \A n \in 0..m : after[n] = IF n = 0 THEN start ELSE ApplyOperation(after[n - 1], operations[n])
    BY <2>1
  <2>3. \A n \in 1..m + 1 : more[n - 1] = after[n - 1]
    OBVIOUS
  <2>4. \A n \in 0..m + 1 : more[n] = IF n = 0 THEN start ELSE ApplyOperation(more[n - 1], operations[n])
    BY <2>2, <2>3
  <2>5. Upto(m + 1, more)
    BY <2>4
  <2> HIDE DEF more, Upto
  <2> QED
    BY <2>5
<1>3. 0..Len(operations) \subseteq T
  BY <1>1, <1>2, CountUp, Zenon
<1> DEFINE it == CHOOSE after : Upto(Len(operations), after)
<1>4. Upto(Len(operations), it)
  <2>1. Len(operations) \in T
    BY <1>3
  <2>2. \E after : Upto(Len(operations), after)
    BY <2>1
  <2> HIDE DEF Upto
  <2> QED
    BY <2>2
<1>5. ApplyOperations(operations, context, writes) = it[Len(operations)]
  BY DEF ApplyOperations, start
<1> HIDE DEF it, T
<1>6. /\ it[0] = start
      /\ \A n \in 1..Len(operations) : it[n] = ApplyOperation(it[n - 1], operations[n])
  <2> DEFINE one == [n \in 0..Len(operations) |-> IF n = 0 THEN start ELSE ApplyOperation(it[n - 1], operations[n])]
  <2>1. it = one
    BY <1>4
  <2>2. one[0] = start /\ \A n \in 1..Len(operations) : one[n] = ApplyOperation(it[n - 1], operations[n])
    OBVIOUS
  <2> HIDE DEF one
  <2> QED
    BY <2>1, <2>2
<1> HIDE DEF Good
<1> DEFINE D == {n \in Nat : n <= Len(operations) => Good(it[n])}
<1>7. 0 \in D
  BY <1>0, <1>6
<1>8. ASSUME NEW n \in 0..Len(operations), n \in D /\ n < Len(operations)
      PROVE  n + 1 \in D
  <2>1. n + 1 \in 1..Len(operations) /\ (n + 1) - 1 = n /\ Good(it[n])
    BY <1>8
  <2>2. it[n + 1] = ApplyOperation(it[n], operations[n + 1])
    BY <1>6, <2>1
  <2>3. /\ operations[n + 1].path \in Paths /\ operations[n + 1].from \in Paths
        /\ IsDocument(operations[n + 1].value)
    BY <2>1
  <2>4. Good(it[n + 1])
    BY <2>1, <2>2, <2>3, OperationCarries DEF Good
  <2> QED
    BY <2>1, <2>4
<1>9. 0..Len(operations) \subseteq D
  BY <1>7, <1>8, CountUp, Zenon
<1>10. Good(it[Len(operations)])
  BY <1>9
<1> QED
  BY <1>5, <1>10 DEF Good

-------------------------------------------------------------------------------
(* Merges.                                                                  *)

\* The context a merge starts from.
LEMMA JoinBaseDocument ==
  ASSUME CallInv
  PROVE  IsDocument(JoinBase)
<1>1. IsDocument(WithVariableDefaults(scenario.variables, Absent))
  BY ScenarioDocuments, AbsentDocument, DefaultsDocument
<1> QED
  BY <1>1, ScenarioDocuments, OverlayDocument DEF JoinBase

\* What a join gathers when a token arrives: tokens that are live, on finitely many branches.
LEMMA ArrivalCarries ==
  ASSUME DataInv, NEW t \in queue
  PROVE  /\ IsFiniteSet(DOMAIN Arrival(t).arrivals)
         /\ \A b \in DOMAIN Arrival(t).arrivals : Carries(Arrival(t).arrivals[b])
<1>1. t \in Live /\ Carries(t)
  BY DEF Live, DataInv
<1>2. Arrival(t).arrivals = Gathered(t)
  BY DEF Arrival
<1>3. /\ IsFiniteSet(DOMAIN Barrier(t).arrivals)
      /\ \A b \in DOMAIN Barrier(t).arrivals : Carries(Barrier(t).arrivals[b])
  <2>1. CASE Key(t) \in DOMAIN barriers
    <3>1. Barrier(t) = barriers[Key(t)]
      BY <2>1 DEF Barrier
    <3>2. \A b \in DOMAIN barriers[Key(t)].arrivals : barriers[Key(t)].arrivals[b] \in Live
      BY <2>1 DEF Held, Live
    <3> QED
      BY <2>1, <3>1, <3>2 DEF DataInv
  <2>2. CASE Key(t) \notin DOMAIN barriers
    <3>1. Barrier(t).arrivals = <<>>
      BY <2>2 DEF Barrier
    <3>2. DOMAIN Barrier(t).arrivals = {}
      BY <3>1
    <3> QED
      BY <3>2, FS_EmptySet
  <2> QED
    BY <2>1, <2>2
<1>4. /\ DOMAIN Gathered(t) = DOMAIN Barrier(t).arrivals \cup {Frame(t).branch}
      /\ \A b \in DOMAIN Gathered(t) :
           Gathered(t)[b] = IF b = Frame(t).branch THEN t ELSE Barrier(t).arrivals[b]
  BY DEF Gathered
<1>5. IsFiniteSet(DOMAIN Barrier(t).arrivals \cup {Frame(t).branch})
  BY <1>3, FS_AddElement
<1>6. \A b \in DOMAIN Gathered(t) : Carries(Gathered(t)[b])
  BY <1>1, <1>3, <1>4
<1> QED
  BY <1>2, <1>4, <1>5, <1>6

\* The writes of the branches of a barrier.
WritesOf(barrier) == {barrier.arrivals[b].writes : b \in DOMAIN barrier.arrivals}

\* Together they are writes to finitely many paths.
LEMMA BarrierWrites ==
  ASSUME NEW barrier, IsFiniteSet(DOMAIN barrier.arrivals),
         \A b \in DOMAIN barrier.arrivals : Carries(barrier.arrivals[b])
  PROVE  /\ \A w \in WritesOf(barrier) : IsWrites(w)
         /\ IsFiniteSet(DOMAIN AllWrites(WritesOf(barrier)))
<1>1. \A w \in WritesOf(barrier) : IsWrites(w)
  BY DEF WritesOf, Carries
<1> DEFINE B == DOMAIN barrier.arrivals
           S == {DOMAIN w : w \in WritesOf(barrier)}
           f == [b \in B |-> DOMAIN barrier.arrivals[b].writes]
<1>2. f \in Surjection(B, S)
  BY DEF Surjection, WritesOf
<1>3. IsFiniteSet(S)
  <2> HIDE DEF S, f
  <2> QED
    BY <1>2, FS_Surjection
<1>4. \A d \in S : IsFiniteSet(d)
  BY <1>1 DEF IsWrites
<1>5. IsFiniteSet(UNION S)
  <2> HIDE DEF S
  <2> QED
    BY <1>3, <1>4, FS_UNION
<1>6. DOMAIN AllWrites(WritesOf(barrier)) = UNION S
  BY DEF AllWrites
<1> QED
  BY <1>1, <1>5, <1>6

\* The outcomes of the merge when a token arrives.
LEMMA MergesOfArrival ==
  ASSUME CallInv, DataInv, NEW t \in queue
  PROVE  /\ Merges(Arrival(t)) \in {MergeTokens(JoinBase, WritesOf(Arrival(t)), scenario.sorted), {Failed}}
         /\ IsDocument(JoinBase) /\ \A w \in WritesOf(Arrival(t)) : IsWrites(w)
         /\ IsFiniteSet(DOMAIN AllWrites(WritesOf(Arrival(t))))
         /\ \A m \in Merges(Arrival(t)) : m.ok => m \in MergeTokens(JoinBase, WritesOf(Arrival(t)), scenario.sorted)
<1>1. Merges(Arrival(t)) \in {MergeTokens(JoinBase, WritesOf(Arrival(t)), scenario.sorted), {Failed}}
  BY DEF Merges, WritesOf
<1>2. \A m \in {Failed} : ~m.ok
  BY DEF Failed, Outcome
<1> QED
  BY <1>1, <1>2, JoinBaseDocument, ArrivalCarries, BarrierWrites

\* The merges of a state in which the tokens carry documents and writes are sound.
LEMMA MergesOfState ==
  ASSUME CallInv, DataInv
  PROVE  MergesAreSound
<1>1. SortedMergeIsDeterministic
  <2> SUFFICES ASSUME scenario.sorted, NEW t \in queue
               PROVE  Cardinality(Merges(Arrival(t))) = 1
    BY DEF SortedMergeIsDeterministic
  <2> DEFINE joined == MergeTokens(JoinBase, WritesOf(Arrival(t)), scenario.sorted)
  <2>1. Cardinality({Failed}) = 1
    BY FS_Singleton
  <2>2. Cardinality(joined) = 1
    BY MergesOfArrival, SortedMergeHasOneOutcome
  <2>3. Merges(Arrival(t)) \in {joined, {Failed}}
    BY MergesOfArrival
  <2> HIDE DEF joined
  <2> QED
    BY <2>1, <2>2, <2>3
<1>2. NoLastWriteWins
  <2> SUFFICES ASSUME NEW t \in queue, NEW m \in Merges(Arrival(t)), m.ok, NEW b \in DOMAIN Joined(t),
                      \A c \in DOMAIN Joined(t) : Disjoint(Joined(t)[b].writes, Joined(t)[c].writes),
                      NEW path \in DOMAIN Joined(t)[b].writes
               PROVE  GetValue(m.context, path) = Joined(t)[b].writes[path]
    BY DEF NoLastWriteWins
  <2> DEFINE w == Joined(t)[b].writes
  <2>1. \A v : v \in WritesOf(Arrival(t)) <=> \E c \in DOMAIN Joined(t) : v = Joined(t)[c].writes
    BY DEF WritesOf, Joined
  <2>2. w \in WritesOf(Arrival(t)) /\ \A v \in WritesOf(Arrival(t)) : Disjoint(w, v)
    BY <2>1
  <2>3. m \in MergeTokens(JoinBase, WritesOf(Arrival(t)), scenario.sorted)
    BY MergesOfArrival
  <2> HIDE DEF w
  <2>4. path \in DOMAIN w
    BY DEF w
  <2>5. GetValue(m.context, path) = w[path]
    BY <2>2, <2>3, <2>4, MergesOfArrival, MergeKeepsWrites
  <2> QED
    BY <2>5 DEF w
<1> QED
  BY <1>1, <1>2 DEF MergesAreSound

\* A token passes a join with a document and writes.
LEMMA ActivationCarries ==
  ASSUME CallInv, DataInv, NEW t \in queue, NEW a \in Activations(t)
  PROVE  Carries(a.token)
<1>1. Carries(t)
  BY DEF Live, DataInv
<1>2. CASE ~Waits(t)
  <2>1. a = Past(t, barriers, resolved)
    BY <1>2 DEF Activations, Waits, Completes, Gathers
  <2> QED
    BY <1>1, <2>1 DEF Past
<1>3. CASE Waits(t) /\ Node(t.node).mode = "any" /\ ~Stray(t) /\ ~Late(t)
  <2>1. a = Past(Freed(t, t.context, t.writes, t.time), barriers, resolved \cup {Key(t)})
    BY <1>3 DEF Activations, Waits, Completes, Gathers
  <2> QED
    BY <1>1, <2>1 DEF Past, Freed, Carries
<1>4. CASE Waits(t) /\ ~(Node(t.node).mode = "any" /\ ~Stray(t) /\ ~Late(t)) /\ Completes(t)
  <2>1. PICK m \in Merges(Arrival(t)) :
          /\ m.ok
          /\ a = Past(Freed(t, m.context, m.writes, Arrival(t).time), Others(Key(t)), resolved)
    BY <1>4 DEF Activations
  <2>2. IsDocument(m.context) /\ IsWrites(m.writes)
    BY <2>1, MergesOfArrival, MergeCarries
  <2> QED
    BY <2>1, <2>2 DEF Past, Freed, Carries
<1>5. CASE Waits(t) /\ ~(Node(t.node).mode = "any" /\ ~Stray(t) /\ ~Late(t)) /\ ~Completes(t)
  <2>1. Activations(t) = {}
    BY <1>5 DEF Activations
  <2> QED
    BY <2>1
<1> QED
  BY <1>2, <1>3, <1>4, <1>5

\* The first token carries the input with the defaults, and no writes.
LEMMA DataInit ==
  ASSUME Init
  PROVE  DataInv
<1> DEFINE start == [id |-> 1, node |-> scenario.trigger, edge |-> 0,
                     context |-> WithVariableDefaults(scenario.variables, scenario.input),
                     writes |-> Absent, lineage |-> <<>>, time |-> 0]
<1>1. queue = {start} /\ barriers = <<>> /\ scenario \in Scenarios
  BY Zenon DEF Init
<1>2. start.context = WithVariableDefaults(scenario.variables, scenario.input) /\ start.writes = Absent
  OBVIOUS
<1> HIDE DEF start
<1>3. CallInv
  BY <1>1, InitEstablishes DEF IInv
<1>4. IsDocument(WithVariableDefaults(scenario.variables, scenario.input))
  BY <1>3, ScenarioDocuments, DefaultsDocument
<1>5. IsWrites(Absent)
  BY AbsentDocument, FS_EmptySet DEF IsWrites
<1>6. DOMAIN barriers = {} /\ Held = {}
  <2>1. DOMAIN barriers = {}
    BY <1>1
  <2> QED
    BY <2>1 DEF Held
<1> QED
  BY <1>1, <1>2, <1>4, <1>5, <1>6 DEF DataInv, Live, Carries

\* The children of a visit carry what its operations left.
LEMMA ChildrenCarry ==
  ASSUME CallInv, TokenInv, BarrierInv, DataInv, Traverse, NEW u \in queue', u \notin queue
  PROVE  Carries(u)
<1>1. PICK t, a : \E order \in InOrder(Choice(a.token).edges) :
        /\ t \in queue /\ a \in Activations(t) /\ Visit(t, a) /\ Leaving(a.token)
        /\ queue' = (queue \ {t}) \cup {Child(a.token, order, i) : i \in 1..Len(order)}
  BY DEF Traverse
<1>2. PICK order :
        /\ t \in queue /\ a \in Activations(t) /\ Visit(t, a) /\ Leaving(a.token)
        /\ queue' = (queue \ {t}) \cup {Child(a.token, order, i) : i \in 1..Len(order)}
  BY <1>1
<1>3. PICK i \in 1..Len(order) : u = Child(a.token, order, i)
  BY <1>2
<1>4. u.context = Operated(a.token).context /\ u.writes = Operated(a.token).writes
  BY <1>3 DEF Child
<1>5. Operated(a.token).ok
  BY <1>2 DEF Leaving, Failure
<1>6. Carries(a.token) /\ a.token.node \in Nodes
  BY <1>2, ActivationCarries, VisitFrame
<1>7. IsDocument(Operated(a.token).context) /\ IsWrites(Operated(a.token).writes)
  <2>1. IsDocument(a.token.context) /\ IsWrites(a.token.writes)
    BY <1>6 DEF Carries
  <2>2. /\ Len(Node(a.token.node).operations) \in Nat
        /\ \A o \in 1..Len(Node(a.token.node).operations) :
             /\ Node(a.token.node).operations[o].path \in Paths
             /\ Node(a.token.node).operations[o].from \in Paths
             /\ IsDocument(Node(a.token.node).operations[o].value)
    BY <1>6, ScenarioDocuments
  <2> QED
    BY <1>5, <2>1, <2>2, OperationsCarry DEF Operated
<1> QED
  BY <1>4, <1>7 DEF Carries

\* Every step leaves documents and writes with the tokens.
LEMMA DataStep ==
  ASSUME IInv, DataInv, [Next]_vars
  PROVE  DataInv'
<1>1. \A u \in queue' : u \in queue \/ Carries(u)
  <2>1. CASE Traverse
    BY <2>1, ChildrenCarry DEF IInv
  <2>2. CASE ~Traverse
    BY <2>2 DEF Next, vars, Uncorrelated, AnyAlreadyResolved, DuplicateBranch, AwaitSiblings,
       MergeConflict, ExceedLimit, FailVisit, ReachEnd, InvalidChoice, Finish, Take
  <2> QED
    BY <2>1, <2>2
<1>2. CASE BarriersShrink
  <2>1. Held' \subseteq Held
    BY <1>2, HeldShrinks
  <2>2. \A u \in Live' : u \in Live \/ Carries(u)
    BY <1>1, <2>1 DEF Live
  <2> QED
    BY <1>2, <2>2 DEF DataInv, BarriersShrink, Carries
<1>3. CASE AwaitSiblings
  <2>1. \A u \in Live' : u \in Live
    BY <1>3, AwaitingIsHeld
  <2>2. PICK t \in queue : barriers' = [k \in DOMAIN barriers \cup {Key(t)} |->
                                         IF k = Key(t) THEN Arrival(t) ELSE barriers[k]]
    BY <1>3 DEF AwaitSiblings
  <2>3. IsFiniteSet(DOMAIN Arrival(t).arrivals)
    BY ArrivalCarries
  <2>4. \A k \in DOMAIN barriers' : IsFiniteSet(DOMAIN barriers'[k].arrivals)
    BY <2>2, <2>3 DEF DataInv
  <2> QED
    BY <2>1, <2>4 DEF DataInv, Carries
<1> QED
  BY <1>2, <1>3, BarriersOfStep

\* Whatever the flow, its operations and its input: a merge keeps every write that no branch
\* wrote above or below, and the engine that replays the writes with parents first has one
\* outcome (packages/engine/src/simulation.ts:400, simulator.go:788-811).
THEOREM MergesKeepWrites == Spec => []MergesAreSound
<1>1. Init => DataInv
  BY DataInit
<1>2. IInv /\ DataInv /\ [Next]_vars => DataInv'
  BY DataStep
<1>3. IInv /\ DataInv => MergesAreSound
  BY MergesOfState DEF IInv
<1> QED
  BY <1>1, <1>2, <1>3, SimulatorInvariant, PTL DEF Spec
===============================================================================
