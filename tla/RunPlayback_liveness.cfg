CONSTANTS
  Controllers = {c1}
  Clients = {s1}
  Plans <- OnePlan
  Speeds = {1, 2}
  Slack = 1
  LeaseRow = FALSE
  MaxControls = 2
  MaxFaults = 1
  MaxCrashes = 1
  Nobody = Nobody
  c1 = c1
  s1 = s1
SPECIFICATION FairSpec
PROPERTIES
  EndedRunIsReleased
  ClientsCatchUp
  PlayerMovesOn
