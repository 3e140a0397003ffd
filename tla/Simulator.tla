------------------------------- MODULE Simulator -------------------------------
(***************************************************************************)
(* engine.Simulator.Run, and createSimulationPlan of packages/engine: the  *)
(* whole simulation of a flow, computed in one call before a run starts.   *)
(*                                                                         *)
(* Tokens wait in a queue ordered by logical time.  A node that selects    *)
(* several edges forks: every child carries a frame that names the fork    *)
(* and its branch.  A join looks at the innermost frame of the token that  *)
(* arrives.  One iteration of the loop is one action.                      *)
(*                                                                         *)
(* Identifiers of nodes and edges are numbers, because the code compares   *)
(* them.  A scenario is a flow with its input, overrides and limits, and   *)
(* the engine that simulates it: sorted is TRUE for packages/engine.       *)
(***************************************************************************)
EXTENDS Documents

Journal == INSTANCE RunJournal WITH Observers <- {}, status <- "created", log <- <<>>, seen <- <<>>

CONSTANT Scenarios

VARIABLES
  scenario,     \* the flow and the options of this call
  status,       \* result.Status
  queue,        \* the tokens to play, a set: Before orders them totally
  barriers,     \* joinBarriers
  resolved,     \* anyResolved
  visits,       \* visits per node
  steps,
  tokens,       \* nextToken
  forks,        \* nextFork
  runCode,      \* "" until a failure is marked
  outputs,      \* contexts of the tokens that reached an end
  events        \* result.Events

vars == <<scenario, status, queue, barriers, resolved, visits, steps, tokens, forks,
          runCode, outputs, events>>
playVars == <<visits, steps, tokens, forks, outputs>>

NoCondition == [op |-> "none"]
Nodes       == DOMAIN scenario.nodes
Node(n)     == scenario.nodes[n]
Edge(e)     == scenario.edges[e]

\* What validateRunOptions, Validate, the choice of the trigger and, in packages/engine, the defaults
\* of the variables require of a scenario: without it there is no run.
Executable(s) ==
  /\ s.sorted \in BOOLEAN
  /\ s.maxSteps \in Nat \ {0} /\ s.maxVisits \in Nat \ {0}
  /\ s.trigger \in DOMAIN s.nodes /\ s.nodes[s.trigger].type = "trigger"
  /\ \E n \in DOMAIN s.nodes : s.nodes[n].type = "end"
  /\ IsFiniteSet(DOMAIN s.edges) /\ IsDocument(s.input)
  /\ Len(s.variables) \in Nat /\ ~(s.sorted /\ DefaultsFail(s.variables, s.input))
  /\ \A v \in 1..Len(s.variables) : s.variables[v].path \in Paths /\ IsDocument(s.variables[v].value)
  /\ \A e \in DOMAIN s.edges : {s.edges[e].source, s.edges[e].target} \subseteq DOMAIN s.nodes
  /\ \A n \in DOMAIN s.nodes :
       /\ s.nodes[n].duration \in Nat /\ Len(s.nodes[n].operations) \in Nat
       /\ \A o \in 1..Len(s.nodes[n].operations) :
            LET op == s.nodes[n].operations[o]
            IN  {op.path, op.from} \subseteq Paths /\ IsDocument(op.value)
       /\ s.nodes[n].type = "decision" =>
            Cardinality({e \in DOMAIN s.edges : s.edges[e].source = n /\ s.edges[e].default}) = 1

ASSUME ScenarioAssumption == \A s \in Scenarios : Executable(s)

-------------------------------------------------------------------------------
(* Edges.                                                                  *)

Outgoing(n) == {e \in DOMAIN scenario.edges : Edge(e).source = n}

Earlier(d, e) == \/ Edge(d).priority < Edge(e).priority
                 \/ Edge(d).priority = Edge(e).priority /\ d < e

\* The one way to list a set of edges in the order in which they were sorted.
InOrder(edges) == {s \in SetToSeqs(edges) : \A i, j \in 1..Len(s) : i < j => Earlier(s[i], s[j])}

\* A condition on one field.  Scalars are numbers; contains asks an object for a key.
Truth(b)           == IF b THEN "true" ELSE "false"
Number(doc)        == DOMAIN doc = {<<>>}
HasKey(doc, key)   == \E p \in DOMAIN doc : p[1] = key
Compares(op, v, w) ==
  CASE op = "greater_than"          -> v > w
    [] op = "greater_than_or_equal" -> v >= w
    [] op = "less_than"             -> v < w
    [] op = "less_than_or_equal"    -> v <= w

EvaluateField(condition, context) ==
  LET found  == Exists(context, condition.path)
      actual == GetValue(context, condition.path)
      wanted == condition.value
      op     == condition.op
  IN  CASE op = "exists"     -> Truth(found)
        [] op = "not_exists" -> Truth(~found)
        [] op \notin {"exists", "not_exists"} /\ ~found -> "error"
        [] found /\ op = "equals"     -> Truth(actual = wanted)
        [] found /\ op = "not_equals" -> Truth(actual # wanted)
        [] found /\ op \in {"contains", "not_contains"} ->
             IF Number(actual) THEN "error" ELSE Truth((op = "contains") = HasKey(actual, wanted))
        [] OTHER -> IF Number(actual) /\ Number(wanted) THEN Truth(Compares(op, actual[<<>>], wanted[<<>>]))
                    ELSE "error"

\* Of and, the first condition that is not true decides; of or, one that is true decides
\* although another cannot be evaluated.  Conditions inside conditions are one level deep.
EvaluateCondition(condition, context) ==
  IF condition.op = "none" THEN "true"
  ELSE IF condition.op \notin {"and", "or"} THEN EvaluateField(condition, context)
  ELSE LET told == [i \in DOMAIN condition.conditions |-> EvaluateField(condition.conditions[i], context)]
           against == SelectSeq(told, LAMBDA v : v # "true")
       IN  IF told = <<>> THEN "error"
           ELSE IF condition.op = "or" THEN Truth(\E i \in DOMAIN told : told[i] = "true")
           ELSE IF against = <<>> THEN "true" ELSE Head(against)

Verdict(e, context) == EvaluateCondition(Edge(e).condition, context)
Telling(edges, context) == {e \in edges : Verdict(e, context) # "false"}
Chosen(edges, context) ==
  [ok |-> \A e \in edges : Verdict(e, context) # "error", edges |-> edges]

\* Defaults are not asked, and first_match asks no further than the first edge that tells.
Decide(n, context) ==
  LET asked   == {e \in Outgoing(n) : ~Edge(e).default /\ Edge(e).condition # NoCondition}
      telling == Telling(asked, context)
  IN  IF telling = {} THEN [ok |-> TRUE, edges |-> {e \in Outgoing(n) : Edge(e).default}]
      ELSE IF Node(n).strategy = "all_matches" THEN Chosen(telling, context)
      ELSE Chosen({e \in telling : \A d \in telling \ {e} : Earlier(e, d)}, context)

SelectEdges(n, context) ==
  IF n \in DOMAIN scenario.forced
  THEN [ok |-> scenario.forced[n] \in Outgoing(n), edges |-> {scenario.forced[n]} \cap Outgoing(n)]
  ELSE IF Node(n).type = "decision" THEN Decide(n, context)
  ELSE Chosen(Telling(Outgoing(n), context), context)

-------------------------------------------------------------------------------
(* Tokens and joins.                                                       *)

Before(t, u) ==
  \/ t.time < u.time
  \/ t.time = u.time /\ t.node < u.node
  \/ t.time = u.time /\ t.node = u.node /\ t.id < u.id

\* The token at the head of the sorted queue.
First(t) == t \in queue /\ \A u \in queue \ {t} : Before(t, u)

Frame(t) == Last(t.lineage)
Key(t)   == [node |-> t.node, fork |-> Frame(t).fork, iteration |-> Frame(t).iteration]

\* The barrier at which t arrives, the tokens it then has, and the barrier after that.
Barrier(t) == IF Key(t) \in DOMAIN barriers THEN barriers[Key(t)]
              ELSE [expected |-> Frame(t).expected, arrivals |-> <<>>, time |-> 0]

Gathered(t) == [b \in DOMAIN Barrier(t).arrivals \cup {Frame(t).branch} |->
                 IF b = Frame(t).branch THEN t ELSE Barrier(t).arrivals[b]]

ArrivalAtFirst(t) ==      \* mutant: the first arrival sets the time
  [expected |-> Barrier(t).expected, arrivals |-> Gathered(t),
   time     |-> IF Key(t) \in DOMAIN barriers THEN Barrier(t).time ELSE t.time]
Arrival(t) ==
  [expected |-> Barrier(t).expected, arrivals |-> Gathered(t),
   time     |-> IF t.time > Barrier(t).time THEN t.time ELSE Barrier(t).time]

Complete(barrier) == barrier.expected \subseteq DOMAIN barrier.arrivals
Others(key)       == [k \in DOMAIN barriers \ {key} |-> barriers[k]]

\* A join starts again from the defaults, without the input that may have kept one from another.
JoinBase == Overlay(WithVariableDefaults(scenario.variables, Absent), scenario.input)
Merges(barrier) ==
  IF scenario.sorted /\ DefaultsFail(scenario.variables, Absent) THEN {Failed}
  ELSE MergeTokens(JoinBase, {barrier.arrivals[b].writes : b \in DOMAIN barrier.arrivals}, scenario.sorted)

Waits(t)      == Node(t.node).mode # "each"
Stray(t)      == Waits(t) /\ t.lineage = <<>>
Late(t)       == Node(t.node).mode = "any" /\ ~Stray(t) /\ Key(t) \in resolved
Duplicate(t)  == /\ Node(t.node).mode = "all" /\ ~Stray(t) /\ Key(t) \in DOMAIN barriers
                 /\ Frame(t).branch \in DOMAIN barriers[Key(t)].arrivals
Gathers(t)    == Node(t.node).mode = "all" /\ ~Stray(t) /\ ~Duplicate(t)
Completes(t)  == Gathers(t) /\ Complete(Arrival(t))

\* Token t as it leaves the join of its node: in the frames outside the innermost one.
Freed(t, context, writes, time) ==
  [id |-> t.id, node |-> t.node, edge |-> t.edge, context |-> context, writes |-> writes,
   lineage |-> Front(t.lineage), time |-> time]
Past(token, waiting, passed) == [token |-> token, barriers |-> waiting, resolved |-> passed]

\* The ways in which token t starts a visit of its node: none if it stops at a join.
Activations(t) ==
  CASE ~Waits(t) -> {Past(t, barriers, resolved)}
    [] Node(t.node).mode = "any" /\ ~Stray(t) /\ ~Late(t) ->
         {Past(Freed(t, t.context, t.writes, t.time), barriers, resolved \cup {Key(t)})}
    [] Completes(t) ->
         {Past(Freed(t, m.context, m.writes, Arrival(t).time),
               Others(Key(t)), resolved) : m \in {n \in Merges(Arrival(t)) : n.ok}}
    [] OTHER -> {}

-------------------------------------------------------------------------------
(* The result.                                                             *)

Event(type, time, token, code) ==
  [type |-> type, time |-> time, node |-> token.node, token |-> token.id, code |-> code]
Emit(new)         == events' = events \o new
MarkFailure(code) == runCode' = IF runCode = "" THEN code ELSE runCode

Init ==
  /\ scenario \in Scenarios
  /\ status = "running"
  /\ queue = {[id |-> 1, node |-> scenario.trigger, edge |-> 0,
               context |-> WithVariableDefaults(scenario.variables, scenario.input),
               writes |-> Absent, lineage |-> <<>>, time |-> 0]}
  /\ barriers = <<>> /\ resolved = {} /\ visits = [n \in Nodes |-> 0] /\ steps = 0
  /\ tokens = 1 /\ forks = 0 /\ runCode = "" /\ outputs = <<>>
  /\ events = <<[type |-> "run.started", time |-> 0, node |-> scenario.trigger, token |-> 0, code |-> ""],
                [type |-> "node.queued", time |-> 0, node |-> scenario.trigger, token |-> 1, code |-> ""]>>

\* The current token leaves the queue and starts no visit.
Take(t) ==
  /\ status = "running" /\ First(t)
  /\ queue' = queue \ {t}
  /\ UNCHANGED <<scenario, status, resolved, playVars>>

\* mutant: only an all-join looks for a frame
UncorrelatedAll == \E t \in queue :
    /\ Take(t) /\ Stray(t) /\ Node(t.node).mode = "all"
    /\ MarkFailure("join.uncorrelated")
    /\ Emit(<<Event("node.failed", t.time, t, "join.uncorrelated")>>)
    /\ UNCHANGED barriers

Uncorrelated == \E t \in queue :
    /\ Take(t) /\ Stray(t)
    /\ MarkFailure("join.uncorrelated")
    /\ Emit(<<Event("node.failed", t.time, t, "join.uncorrelated")>>)
    /\ UNCHANGED barriers

AnyAlreadyResolved == \E t \in queue :
    /\ Take(t) /\ Late(t)
    /\ Emit(<<Event("node.skipped", t.time, t, "join.any_already_resolved")>>)
    /\ UNCHANGED <<barriers, runCode>>

DuplicateBranch == \E t \in queue :
    /\ Take(t) /\ Duplicate(t)
    /\ Emit(<<Event("node.skipped", t.time, t, "join.all_duplicate_branch")>>)
    /\ UNCHANGED <<barriers, runCode>>

AwaitSiblings == \E t \in queue :
    /\ Take(t) /\ Gathers(t) /\ ~Completes(t)
    /\ barriers' = [k \in DOMAIN barriers \cup {Key(t)} |->
                     IF k = Key(t) THEN Arrival(t) ELSE barriers[k]]
    /\ Emit(<<Event("node.waiting", t.time, t, "")>>)
    /\ UNCHANGED runCode

MergeConflict == \E t \in queue :
    /\ Take(t) /\ Completes(t) /\ \E m \in Merges(Arrival(t)) : ~m.ok
    /\ barriers' = Others(Key(t))
    /\ MarkFailure("context.merge_conflict")
    /\ Emit(<<Event("node.failed", Arrival(t).time, t, "context.merge_conflict")>>)

-------------------------------------------------------------------------------
(* Visits.                                                                 *)

WithinLimits(n) == steps < scenario.maxSteps /\ visits[n] < scenario.maxVisits

\* Token t is played, and passes the join of its node in the way a.
Pass(t, a) == /\ status = "running" /\ First(t) /\ a \in Activations(t)
              /\ barriers' = a.barriers /\ resolved' = a.resolved
              /\ UNCHANGED scenario

ExceedLimitAndGoOn == \E t \in queue : \E a \in Activations(t) :      \* mutant: the call does not return
    /\ Pass(t, a) /\ ~WithinLimits(t.node)
    /\ queue' = {}
    /\ runCode' = IF steps < scenario.maxSteps THEN "run.max_visits_per_node" ELSE "run.max_steps"
    /\ Emit(<<Event("run.limit_exceeded", a.token.time, a.token, runCode')>>)
    /\ UNCHANGED <<status, playVars>>

ExceedLimit == \E t \in queue : \E a \in Activations(t) :
    /\ Pass(t, a) /\ ~WithinLimits(t.node)
    /\ queue' = {} /\ status' = "failed"
    /\ runCode' = IF steps < scenario.maxSteps THEN "run.max_visits_per_node" ELSE "run.max_steps"
    /\ Emit(<<Event("run.limit_exceeded", a.token.time, a.token, runCode')>>)
    /\ UNCHANGED playVars

Started(t)   == Event("node.started", t.time, t, "")
Completed(t) == Event("node.completed", t.time + Node(t.node).duration, t, "")

Visit(t, a) ==
  /\ Pass(t, a) /\ WithinLimits(t.node)
  /\ steps' = steps + 1 /\ visits' = [visits EXCEPT ![t.node] = @ + 1]
  /\ UNCHANGED status

Operated(t) == ApplyOperations(Node(t.node).operations, t.context, t.writes)

Failure(t) ==
  CASE t.node \in scenario.failed -> "node.forced_failure"
    [] Node(t.node).fails         -> "integration.simulated_failure"
    [] ~Operated(t).ok            -> "operation.invalid"
    [] OTHER                      -> ""

\* The visit fails before the node does anything, and its branch ends.
FailVisit == \E t \in queue : \E a \in Activations(t) :
    /\ Visit(t, a) /\ Failure(a.token) # ""
    /\ MarkFailure(Failure(a.token))
    /\ queue' = queue \ {t}
    /\ Emit(<<Started(a.token), Event("node.failed", a.token.time, a.token, Failure(a.token))>>)
    /\ UNCHANGED <<tokens, forks, outputs>>

ReachEnd == \E t \in queue : \E a \in Activations(t) :
    /\ Visit(t, a) /\ Failure(a.token) = "" /\ Node(a.token.node).type = "end"
    /\ outputs' = Append(outputs, Operated(a.token).context)
    /\ IF Node(a.token.node).result = "failure" THEN MarkFailure("end.failure") ELSE UNCHANGED runCode
    /\ queue' = queue \ {t}
    /\ Emit(<<Started(a.token), Completed(a.token)>>)
    /\ UNCHANGED <<tokens, forks>>

Leaving(t) == Failure(t) = "" /\ Node(t.node).type # "end"
Choice(t)  == SelectEdges(t.node, Operated(t).context)

\* The node completed, and then no edge could be chosen.
InvalidChoice == \E t \in queue : \E a \in Activations(t) :
    /\ Visit(t, a) /\ Leaving(a.token) /\ ~Choice(a.token).ok
    /\ MarkFailure("condition.invalid")
    /\ queue' = queue \ {t}
    /\ Emit(<<Started(a.token), Completed(a.token),
              Event("node.failed", Completed(a.token).time, a.token, "condition.invalid")>>)
    /\ UNCHANGED <<tokens, forks, outputs>>

\* The frames of the child on one of the selected edges.
Forked(t, edges, e) ==
  IF Cardinality(edges) = 1 THEN t.lineage
  ELSE Append(t.lineage, [fork |-> forks + 1, branch |-> e, expected |-> edges,
                          iteration |-> visits[t.node] + 1])

ChildKeepsId(t, order, i) ==    \* mutant: the first child is the token itself
  [id |-> IF i = 1 THEN t.id ELSE tokens + i, node |-> Edge(order[i]).target, edge |-> order[i],
   context |-> Operated(t).context, writes |-> Operated(t).writes,
   lineage |-> Forked(t, Choice(t).edges, order[i]), time |-> Completed(t).time]
Child(t, order, i) ==
  [id |-> tokens + i, node |-> Edge(order[i]).target, edge |-> order[i],
   context |-> Operated(t).context, writes |-> Operated(t).writes,
   lineage |-> Forked(t, Choice(t).edges, order[i]), time |-> Completed(t).time]

\* Every selected edge is traversed, and its child queued.
Crossings(t, order) ==
  [i \in 1..2 * Len(order) |->
     IF i % 2 = 1 THEN Event("edge.traversed", Completed(t).time, t, "")
     ELSE Event("node.queued", Completed(t).time, Child(t, order, i \div 2), "")]

NextForkStale(edges) == forks       \* mutant: the counter is not advanced
NextFork(edges)      == IF Cardinality(edges) > 1 THEN forks + 1 ELSE forks

Traverse == \E t \in queue : \E a \in Activations(t) : \E order \in InOrder(Choice(a.token).edges) :
    /\ Visit(t, a) /\ Leaving(a.token) /\ Choice(a.token).ok
    /\ queue' = (queue \ {t}) \cup {Child(a.token, order, i) : i \in 1..Len(order)}
    /\ tokens' = tokens + Len(order)
    /\ forks' = NextFork(Choice(a.token).edges)
    /\ Emit(<<Started(a.token), Completed(a.token)>> \o Crossings(a.token, order))
    /\ UNCHANGED <<runCode, outputs>>

-------------------------------------------------------------------------------
(* The end of the call: leftover barriers, no end reached, the verdict.    *)

Deadlock(k) == [type |-> "node.failed", time |-> barriers[k].time, node |-> k.node,
                token |-> 0, code |-> "run.deadlock"]     \* the token it names is left out

BarrierOrders ==
  {s \in SetToSeqs(DOMAIN barriers) : \A i, j \in 1..Len(s) : i < j =>
     \/ s[i].node < s[j].node
     \/ s[i].node = s[j].node /\ s[i].fork < s[j].fork}

CodeAtEnd ==
  IF runCode # "" THEN runCode
  ELSE IF DOMAIN barriers # {} THEN "run.deadlock"
  ELSE IF outputs = <<>> THEN "run.no_end_reached" ELSE ""

Times == {events[i].time : i \in 1..Len(events)}

Finish == \E last \in Times : \E order \in BarrierOrders :
    /\ status = "running" /\ queue = {}
    /\ \A time \in Times : time <= last
    /\ runCode' = CodeAtEnd
    /\ status' = IF CodeAtEnd = "" THEN "completed" ELSE "failed"
    /\ Emit([i \in 1..Len(order) |-> Deadlock(order[i])]
            \o <<[type |-> IF CodeAtEnd = "" THEN "run.completed" ELSE "run.failed",
                  time |-> last, node |-> scenario.trigger, token |-> 0, code |-> CodeAtEnd]>>)
    /\ UNCHANGED <<scenario, queue, barriers, resolved, playVars>>

Next ==
  \/ Uncorrelated
  \/ AnyAlreadyResolved
  \/ DuplicateBranch
  \/ AwaitSiblings
  \/ MergeConflict
  \/ ExceedLimit
  \/ FailVisit
  \/ ReachEnd
  \/ InvalidChoice
  \/ Traverse
  \/ Finish

\* Run is one call: it takes its steps until it returns.
Spec == Init /\ [][Next]_vars /\ WF_vars(Next)

-------------------------------------------------------------------------------
(* Properties.                                                             *)

Held  == UNION {{barriers[k].arrivals[b] : b \in DOMAIN barriers[k].arrivals} : k \in DOMAIN barriers}
Live  == queue \cup Held
Starts == {i \in 1..Len(events) : events[i].type = "node.started"}

\* Visits start in the order of logical time although events are not sorted by it, joins
\* included: nothing in the queue is earlier than the last visit (simulator.go:187-195, 296).
VisitsInTimeOrder ==
  \A i \in Starts :
    /\ \A j \in Starts : i < j => events[i].time <= events[j].time
    /\ \A t \in queue : events[i].time <= t.time

\* Every token that was queued is waiting in the queue, or met exactly one fate: it was
\* visited, held by a join, skipped, or refused.  A limit drops the tokens that remain.
TokensAccounted ==
  \A id \in 1..tokens :
    LET fates == Cardinality(
          {i \in 1..Len(events) :
             /\ events[i].token = id
             /\ \/ events[i].type \in {"node.started", "node.waiting", "node.skipped"}
                \/ events[i].code \in {"join.uncorrelated", "context.merge_conflict"}})
    IN  IF \E t \in queue : t.id = id THEN fates = 0
        ELSE fates = 1 \/ (fates = 0 /\ Last(events).type = "run.limit_exceeded")

\* Two tokens that carry the same fork carry the same frames outside it, and inner forks are
\* newer: so a join may continue with the frames of whichever sibling came last (popLineage).
CorrelationIsSound ==
  \A t, u \in Live : \A i \in 1..Len(t.lineage), j \in 1..Len(u.lineage) :
    /\ i + 1 <= Len(t.lineage) => t.lineage[i].fork < t.lineage[i + 1].fork
    /\ t.lineage[i].branch \in t.lineage[i].expected
    /\ t.lineage[i].fork = u.lineage[j].fork =>
         i = j /\ SubSeq(t.lineage, 1, i - 1) = SubSeq(u.lineage, 1, j - 1)

\* An any-join is visited once for each fork that reaches it: siblings are skipped
\* (simulator.go:214-224, and the test TestSimulatorAnyIsCorrelatedPerFork).
AnyPassesOnce ==
  \A n \in Nodes : Node(n).mode = "any" =>
    visits[n] <= Cardinality({k \in resolved : k.node = n})

\* Joins tell forks and iterations apart, however branches fork inside, loop and overtake each
\* other: the frames of their tokens agree, and an any-join passes once for each fork.
JoinsAreSound == CorrelationIsSound /\ AnyPassesOnce

\* No visit starts beyond a limit, and every visit that was counted was announced.
LimitsHold ==
  /\ steps <= scenario.maxSteps /\ \A n \in Nodes : visits[n] <= scenario.maxVisits
  /\ steps = Cardinality(Starts)
  /\ \A n \in Nodes : visits[n] = Cardinality({i \in Starts : events[i].node = n})

\* A completed run has no failed node, no join that still waits, and reached an end; a failed
\* one says why (simulator.go:438-495).
VerdictIsJustified ==
  /\ status = "completed" => /\ ~\E i \in 1..Len(events) : events[i].type = "node.failed"
                             /\ DOMAIN barriers = {} /\ outputs # <<>> /\ runCode = ""
  /\ status = "failed" => \/ \E i \in 1..Len(events) : /\ events[i].code = runCode
                                                       /\ events[i].type = "node.failed"
                          \/ runCode = "end.failure" /\ outputs # <<>>
                          \/ runCode = "run.no_end_reached" /\ outputs = <<>>
                          \/ Last(events).type = "run.limit_exceeded"

\* Every call returns, whatever cycles the flow has, with a verdict that is justified.
ReturnsAVerdict == <>(status # "running") /\ []VerdictIsJustified

\* What Manager.Start is given is a plan in the sense of RunPlayback: planned types only,
\* and one verdict, which comes last.
PlanIsPlayable ==
  status # "running" =>
    \A i \in 1..Len(events) :
      /\ events[i].type \in Journal!PlannedTypes
      /\ events[i].type \in Journal!TerminalTypes <=> i = Len(events)

-------------------------------------------------------------------------------
(* Merges.                                                                 *)

Joining(t) == First(t) /\ Completes(t)
Joined(t)  == Arrival(t).arrivals

\* The engine that sorts the writes of a merge has one outcome: a parent before its children is
\* all the order that matters (packages/engine/src/simulation.ts:400).
SortedMergeIsDeterministic ==
  scenario.sorted => \A t \in queue : Joining(t) => Cardinality(Merges(Arrival(t))) = 1

\* No two branches wrote an object, and a field inside it.
Disjoint(v, w) == \A p \in DOMAIN v, q \in DOMAIN w : ~IsStrictPrefix(p, q) /\ ~IsStrictPrefix(q, p)

\* What a branch wrote is there after the join: of two writes to one path the last does not
\* win, it conflicts (simulator.go:788-803).  Paths inside one another are another matter.
NoLastWriteWins ==
  \A t \in queue : Joining(t) => \A m \in Merges(Arrival(t)) : m.ok =>
    \A b \in DOMAIN Joined(t) :
      (\A c \in DOMAIN Joined(t) : Disjoint(Joined(t)[b].writes, Joined(t)[c].writes)) =>
        \A path \in DOMAIN Joined(t)[b].writes :
          GetValue(m.context, path) = Joined(t)[b].writes[path]

\* A merge loses no write, and in the engine that sorts them it has one outcome.
MergesAreSound == SortedMergeIsDeterministic /\ NoLastWriteWins
===============================================================================
