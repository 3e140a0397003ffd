SPECIFICATION StreamSpec
CONSTANTS
  Runs = {r1, r2}
  NoRun = NoRun
  Modes = {"api", "local"}
  Window = 5
  MaxAttempts = 1
  PlanLength = 2
  MaxClicks = 3
  MaxFaults = 2
INVARIANTS FollowingIsSound CaughtUpIsTrue
PROPERTIES EndIsShown
CHECK_DEADLOCK FALSE
