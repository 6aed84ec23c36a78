SPECIFICATION Spec
CONSTANTS
  Workers = {1, 2, 3}
  Shards <- SmallShards
  NumFeatures = 2
  Unit = 240
  LearningRate = 1
  IntMax = 5
  MaxUpdates = 2
PROPERTIES
  RoundsAreCentralised
CHECK_DEADLOCK FALSE
