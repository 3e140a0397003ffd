------------------------------ MODULE RunIncident ------------------------------
(***************************************************************************)
(* The Time Machine over the runs of Simulator: what it shows at the last  *)
(* frame of the events emitted so far is compared with the simulation that *)
(* emitted them.                                                           *)
(***************************************************************************)
EXTENDS Simulator, Incident

Shown == Reconstruct(events, Len(events))

ShownAs(state) ==
  {<<v.node, v.token>> : v \in {u \in Range(Shown.nodeVisits) : u.state = state}}

Tokens(set) == {<<t.node, t.id>> : t \in set}

\* What is rebuilt from the events is the state of the simulation: the visits shown as queued are
\* the tokens of the queue, those that a join holds are shown as waiting, none is left running,
\* the status is that of the run, and a token has one visit (incident-service.ts:241, and its test
\* "preserva visitas"); but a choice that cannot be evaluated fails a visit that had completed,
\* and is shown as a second one.
ReplayMatchesRun ==
  /\ status = "running" => ShownAs("queued") = Tokens(queue) /\ Tokens(Held) \subseteq ShownAs("waiting")
  /\ ShownAs("running") = {}
  /\ Shown.runStatus = status
  /\ \A u, v \in Range(Shown.nodeVisits) :
       u # v /\ u.token = v.token /\ u.token # 0 =>
         u.node = v.node /\ \E e \in Range(events) : e.token = u.token /\ e.code = "condition.invalid"
===============================================================================
