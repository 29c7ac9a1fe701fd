CONSTANTS
  t1 = t1
  t2 = t2
  t3 = t3
  NoTask = NoTask
  Name <- MCName
  Task = {t1, t2}
  Key <- MCTwoDiffs
  MaxRound = 1
  Workers = 2
  ServerTables <- ShippedSchema
  MaxFaults = 0
SPECIFICATION DbSpec
INVARIANTS ResultsStored
