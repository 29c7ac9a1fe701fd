SPECIFICATION Spec
CONSTANTS
  Queues <- MCQueues
  ColourCap = 3
  MaxLevel = 3
INVARIANTS EventTree ObjectsLast TimingPointApplies ConversionKeepsMap ComboCycle NothingLeft
CHECK_DEADLOCK FALSE
