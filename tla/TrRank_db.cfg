SPECIFICATION RankSpec
CONSTANTS
  CommandLines <- MCLines
  FirstChar <- MCFirstChar
  Atoi <- MCAtoi
  Mods <- MCMods
  File <- MCFile
  NoTask = 0
  MaxArgs = 5
  Workers = 2
  MaxPrint = 2
  Name <- MCName
  Key <- MCKey
  ServerTables <- MCTables
  MaxFaults = 0
INVARIANT EveryResultStored
PROPERTY ImplementsBoth
