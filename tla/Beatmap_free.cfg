SPECIFICATION Spec
CONSTANTS
  Queues <- MCEasedFiles
  ColourCap = 3
  MaxLevel = 3
INVARIANT FreeHarmless
CHECK_DEADLOCK FALSE
