SPECIFICATION Spec
CONSTANTS
  CommandLines <- MCLines
  FirstChar <- MCFirstChar
  Atoi <- MCAtoi
  Mods <- MCMods
  File <- MCFile
  NoTask = 0
  MaxArgs = 10
  Workers = 3
  MaxPrint = 2
INVARIANTS OutputIntact RatedAsAsked
PROPERTY Terminates
