SPECIFICATION FairSpec
CONSTANTS
  Threshold = 3
  MaxNested = 6
  MaxPuts = 3
INVARIANTS ReentersOnlyLongFrames PumpsOnlyWhenStale ReplaysAreCompletions
PROPERTIES ProcessTickKeepsRunning
