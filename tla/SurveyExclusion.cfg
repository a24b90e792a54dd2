SPECIFICATION Spec
CONSTANTS
  c1 = c1
  c2 = c2
  c3 = c3
  Contenders = {c1, c2, c3}
  Nobody = Nobody
  MaxCrashes = 1
  MaxSuspends = 1
  MaxGlitches = 1
SYMMETRY MCSymmetry
INVARIANTS
  TypeOK
  HolderOwns
  SurveysExclude
PROPERTIES
  OwnersKeepTheirFile
