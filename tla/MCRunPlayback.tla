----------------------------- MODULE MCRunPlayback ----------------------------
(* Instances of RunPlayback for TLC.                                        *)
EXTENDS RunPlaybackInv, TLC

\* Two visits and a verdict; a skipped visit and a failed one.
ShortPlan  == <<"run.started", "node.completed", "run.completed">>
TwoVisits  == <<"run.started", "node.skipped", "node.failed", "run.failed">>
OverLimit  == <<"run.started", "node.started", "run.limit_exceeded">>

OnePlan    == {TwoVisits}
ShortPlans == {ShortPlan, OverLimit}
AllPlans   == {ShortPlan, TwoVisits, OverLimit}

RequestSymmetry == Permutations(Controllers)
===============================================================================
