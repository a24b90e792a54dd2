SPECIFICATION Spec
CONSTANTS
  Starters = {1, 2}
  MaxDays = 2
  MaxDeaths = 2
INVARIANT OneUpdater
CHECK_DEADLOCK FALSE
