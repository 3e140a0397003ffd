SPECIFICATION Spec
SYMMETRY Symmetry
CONSTANTS
  Tabs = {t1, t2}
  Calls = {me, list}
  Me = me
  MaxPairs = 3
  MaxClicks = 3
  MaxTrouble = 3
INVARIANTS ExpelledForAReason OneLiveRefresh
CHECK_DEADLOCK FALSE
