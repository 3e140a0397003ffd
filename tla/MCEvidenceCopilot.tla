--------------------------- MODULE MCEvidenceCopilot ---------------------------
(* Two runs of two nodes: one that fails and one that ends.                *)
EXTENDS EvidenceCopilot

CONSTANTS n1, n2, r1, r2

Frame(type, n) == [type |-> type, node |-> n, token |-> 1]

MCPlans == [r \in Runs |->
  IF r = r1 THEN <<Frame("node.started", n1), Frame("node.failed", n1),
                   Frame("run.failed", None)>>
  ELSE <<Frame("node.started", n2), Frame("run.interrupted", None)>>]
===============================================================================
