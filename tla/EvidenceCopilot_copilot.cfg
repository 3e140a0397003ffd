CONSTANTS
  n1 = n1
  n2 = n2
  r1 = r1
  r2 = r2
  None = None
  Parts = {n1, n2}
  Runs = {r1, r2}
  Plans <- MCPlans
  MaxAsks = 2
  MaxChanges = 1
SPECIFICATION FairSpec
INVARIANT AdviceIsGrounded
PROPERTY TransportSettles
