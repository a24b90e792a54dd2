SPECIFICATION Spec
CONSTANTS
  Contenders = {c1, c2}
  Nobody = Nobody
  MaxCrashes = 1
  MaxSuspends = 1
  MaxGlitches = 1
  Sessions = {s1}
  MaxCommits = 2
  Refresh = 1
  MaxDeletes = 1
  MaxFaults = 1
  Starters = {1, 2}
  MaxDays = 2
  MaxDeaths = 2
INVARIANTS
  TypeOK
PROPERTIES
  LostSurveyEnds
  SurveyRetried
  ChecksResume
\* A check is made and nothing makes the interval elapse again.
CHECK_DEADLOCK FALSE
