SPECIFICATION Spec
CONSTANTS
  r1 = r1 r2 = r2 g1 = g1 g2 = g2 b1 = b1 w1 = w1 w2 = w2 u1 = u1 u2 = u2
  d1 = d1 d2 = d2 bankA = bankA bankB = bankB
  Requests = {r1}
  Legacy = {g1, g2}
  Barriers = {b1}
  Replayers = {w1, w2}
  Docs = {d1, d2}
  NoDoc = NoDoc
  DocOf <- MCTwoDocuments
  Banks = {bankA, bankB}
  UnknownBank = UnknownBank
  NoBank = NoBank
  NoOne = NoOne
  NoId = NoId
  FreshOps = {u1, u2}
  NoOp = NoOp
  MaxReplayAttempts = 2
  AttemptCap = 2
  ReplayBatchSize = 2
  InitialQueues <- MCLegacyFiles
  FirstLine = 3
  MaxItems = 2
  Expires = TRUE
  MaxAborts = 1
  MaxReroutes = 1
  MaxResumes = 1
SYMMETRY MCSymmetry
INVARIANTS
  UnresolvedSendPauses
  GateHoldsBacklog
  ShieldedNotLost
  StableOperationId
PROPERTIES
  RemovalIsJustified
