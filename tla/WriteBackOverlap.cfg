SPECIFICATION Spec
CONSTANTS
  h1 = h1
  h2 = h2
  a = a
  b = b
  Hooks <- TwoHooks
  Banks <- OneBank
  NoCursor = NoCursor
  MaxTurns = 3
  MaxMoves = 0
  MaxCursorOps = 2
  RetryAttempts = 1
  CursorWritesFail = FALSE
INVARIANT SlicesSentOnce
