CONSTANTS
  t1 = t1
  t2 = t2
  t3 = t3
  NoTask = NoTask
  Name <- MCName
  Task = {t1, t2}
  Key <- MCTwoMods
  MaxRound = 1
  Workers = 2
  ServerTables <- MatchingSchema
  MaxFaults = 1
SPECIFICATION DbSpec
INVARIANTS IdsAreOwn ScoresAreOwn
PROPERTY AllFinish
