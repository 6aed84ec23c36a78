SPECIFICATION Spec
CONSTANTS
  w1 = w1
  w2 = w2
  w3 = w3
  Workers = {w1, w2}
  NoWorker = NoWorker
  MaxWorkers = 2
  MaxFeatures = 3
  MaxRounds = 1
  ExpectedWorkers = 2
  Features <- UniformFeatures
  Samples <- OneSample
  Mortal = {w1}
  ServerMayDie = FALSE
INVARIANTS
  NoFatalDisconnect
CHECK_DEADLOCK FALSE
