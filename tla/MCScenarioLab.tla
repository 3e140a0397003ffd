------------------------------ MODULE MCScenarioLab ------------------------------
(***************************************************************************)
(* Three definitions: a decision with two routes, the same without its     *)
(* failing step, and one with two triggers in which that step is an end.   *)
(***************************************************************************)
EXTENDS ScenarioLab

Def(triggers, failable, steps, slow) ==
  [nodes |-> triggers \cup steps \cup {"d", "end"}, triggers |-> triggers, failable |-> failable, decisions |-> {"d"}, edges |-> [x |-> "d", y |-> "d", z |-> "t"], slow |-> slow]

MCDefinitions == {Def({"t"}, {"s"}, {"s"}, 0), Def({"t"}, {}, {}, 1), Def({"t", "u"}, {}, {"s"}, 0)}

\* The decision takes the route y for the input "other" and x otherwise; x goes through s.
MCPlan(def, scenario) ==
  LET route == IF scenario.forced # {} THEN (CHOOSE f \in scenario.forced : TRUE)[2]
               ELSE IF scenario.input = "other" THEN "y" ELSE "x"
      fails == "s" \in scenario.failed /\ route = "x"
      start == IF scenario.triggerId = "" THEN "t" ELSE scenario.triggerId
      path  == <<start, "d">> \o (IF route = "y" THEN <<"end">> ELSE <<"s">> \o (IF fails THEN <<>> ELSE <<"end">>))
  IN  [status |-> IF fails THEN "failed" ELSE "completed", path |-> path,
       duration |-> Len(path) + def.slow, events |-> 2 * Len(path)]
===============================================================================
