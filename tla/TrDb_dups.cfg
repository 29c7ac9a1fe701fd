CONSTANTS
  t1 = t1
  t2 = t2
  t3 = t3
  NoTask = NoTask
  Name <- MCName
  Task = {t1, t2, t3}
  Key <- MCSameKeys
  MaxRound = 1
  Workers = 2
  ServerTables <- MatchingSchema
  MaxFaults = 0
SPECIFICATION DbSpec
INVARIANT DuplicatesBounded
SYMMETRY MCSymmetry
