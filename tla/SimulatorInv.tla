----------------------------- MODULE SimulatorInv -----------------------------
(* The inductive invariant of Simulator, a conjunction of named parts.      *)
EXTENDS Simulator

Codes ==
  {"", "join.uncorrelated", "join.any_already_resolved", "join.all_duplicate_branch",
   "context.merge_conflict", "run.max_steps", "run.max_visits_per_node", "node.forced_failure",
   "integration.simulated_failure", "operation.invalid", "condition.invalid", "end.failure",
   "run.deadlock", "run.no_end_reached"}

EventRecord ==
  [type : Journal!PlannedTypes, time : Nat, node : Nodes, token : Nat, code : Codes]

\* The part of a token that its place in the queue depends on.
IsToken(t) == t.id \in Nat /\ t.node \in Nodes /\ t.time \in Nat

CallInv  == scenario \in Scenarios /\ status \in {"running", "completed", "failed"} /\ runCode \in Codes
TokenInv == tokens \in Nat /\ \A t \in queue : IsToken(t)

\* No barrier is ahead of the queue: a join that completes does so at the time of the token
\* that completes it, and the maximum the code takes (simulator.go:259-261) is that time.
BarrierInv ==
  /\ IsFiniteSet(DOMAIN barriers)
  /\ \A k \in DOMAIN barriers : /\ k.node \in Nodes /\ barriers[k].time \in Nat
                                /\ \A t \in queue : barriers[k].time <= t.time

\* A verdict closes the events and the call together.
EventInv ==
  /\ events \in Seq(EventRecord)
  /\ \A i \in 1..Len(events) :
       events[i].type \in Journal!TerminalTypes => i = Len(events) /\ status # "running"
  /\ status # "running" => events # <<>> /\ events[Len(events)].type \in Journal!TerminalTypes

CountInv == steps \in Nat /\ visits \in [Nodes -> Nat] /\ LimitsHold

\* The invariant of the proofs: typed events and tokens, the two invariants that are proved,
\* and what makes them inductive.
IInv == CallInv /\ TokenInv /\ BarrierInv /\ EventInv /\ CountInv /\ VisitsInTimeOrder
-------------------------------------------------------------------------------
(* What IInv leaves open: the frames of the joins, and the fate of each token. *)

FrameRecord ==
  [fork : Nat, branch : DOMAIN scenario.edges, expected : SUBSET DOMAIN scenario.edges, iteration : Nat]

\* No token carries a fork that has not been counted.
LineageInv ==
  /\ forks \in Nat
  /\ \A t \in Live : /\ t.lineage \in Seq(FrameRecord)
                     /\ \A i \in 1..Len(t.lineage) : t.lineage[i].fork <= forks

JoinInv == LineageInv /\ CorrelationIsSound /\ IsFiniteSet(resolved) /\ AnyPassesOnce

\* The number of a token is its own, and counted before an event names it.
NumberInv ==
  /\ \A t \in queue : t.id \in 1..tokens
  /\ \A t, u \in queue : t.id = u.id => t = u
  /\ events # <<>> /\ \A i \in 1..Len(events) : events[i].token <= tokens

\* What the tokens carry to a join: documents, and writes to finitely many paths.
IsWrites(writes) ==
  /\ IsFiniteSet(DOMAIN writes) /\ DOMAIN writes \subseteq Paths
  /\ \A p \in DOMAIN writes : IsDocument(writes[p])

Carries(t) == IsDocument(t.context) /\ IsWrites(t.writes)

DataInv == /\ \A t \in Live : Carries(t)
           /\ \A k \in DOMAIN barriers : IsFiniteSet(DOMAIN barriers[k].arrivals)
===============================================================================
