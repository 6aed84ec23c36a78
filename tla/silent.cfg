SPECIFICATION ServerFairSpec
CONSTANTS
  w1 = w1
  w2 = w2
  w3 = w3
  Workers = {w1, w2, w3}
  NoWorker = NoWorker
  MaxWorkers = 2
  MaxFeatures = 3
  MaxRounds = 0
  ExpectedWorkers = 1
  Features <- UniformFeatures
  Samples <- OneSample
  Mortal = {w2}
  ServerMayDie = FALSE
PROPERTIES
  EveryWorkerServed TrainingStarts
CHECK_DEADLOCK FALSE
