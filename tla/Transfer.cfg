SPECIFICATION TFairSpec
CONSTANTS
  Names = {"a", "b"}
  Trees <- MCTrees
  Edits <- MCEdits
  MaxEdits = 1
  Foreign <- MCForeign
  destination <- MCDestination
  MaxFiles = 4
  MaxBytes = 4
  OptionLists <- MCOptionLists
  defaultExclusions <- MCDefaultExclusions
  JobNodes <- MCJobNodes
  MaxWrites = 2
  MaxArtifact = 1
INVARIANTS
  TypeOK
  TreeIsReal
  WithinLimits
  RestoresTree
  ArtifactsArrive
PROPERTIES
  UploadEnds
CHECK_DEADLOCK FALSE
