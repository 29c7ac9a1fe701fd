SPECIFICATION MCSpec
CONSTANTS
  Files <- MCFiles
  Chunks = 2
  BeatmapFiles <- MCBeatmapFiles
  ReplayFiles <- MCReplayFiles
  Places = {1}
  Unit = 400
  MaxLoads = 4
  MaxRefs = 3
  MaxDialogs = 2
  MaxMessages = 1
  EditedFiles <- MCEditedFiles
  MaxTabs = 3
  MaxCalls = 2
  Pictured <- MCPictured
  Turn = 6
INVARIANTS CutLosesOnlyTheEnd MissesExplained ViewIsCurrent TabsInStep SavedAsLoaded PictureTells
PROPERTIES EveryObjectJudged EarlySeekHappens
CHECK_DEADLOCK FALSE
