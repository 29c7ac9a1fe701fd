SPECIFICATION MCSpec
CONSTANTS
  n1 = n1
  n2 = n2
  n3 = n3
  e1 = e1
  e2 = e2
  Elem = {e1, e2}
  NULL = NULL
  Node = {Front, Back, n1, n2, n3}
  Front = Front
  Back = Back
  Number = {1, 2, 3}
  Capacity = 6
  MaxWeighted = 3
  Key = {"a", "b"}
  HashOf <- MCHash
  Cells = 5
  InitialBuckets = 2
  Thresh = 3
  MaxBuckets = 8
  Scalar = {"a", "b"}
  MaxNodes = 4
  dbctl = dbctl
  ranking = ranking
  again = again
  oldHash = oldHash
  newHash = newHash
  songA = songA
  songB = songB
  Proc = {dbctl, ranking, again}
  Populates = {dbctl, again}
  Path = {songA, songB}
  Hash = {oldHash, newHash}
  Absent = Absent
  Broken = Broken
  NoPath = NoPath
  NoProc = NoProc
  FirstFiles <- MCFirstFiles
  FirstDisks <- MCFirstDisks
  MaxEdits = 1
  MaxCrashes = 1

INVARIANTS Chain CursorInPlace SumIsRight TableExact DocumentLoaded FileWhole PopulateExact
PROPERTIES ImplementsListSpec LookupsKeepFile
SYMMETRY MCSymmetry
CHECK_DEADLOCK FALSE
