SPECIFICATION Spec
CONSTANTS
  w1 = w1
  w2 = w2
  w3 = w3
  Workers = {w1, w2, w3}
  NoWorker = NoWorker
  MaxWorkers = 2
  MaxFeatures = 3
  MaxRounds = 1
  ExpectedWorkers = 1
  Features <- MixedFeatures
  Samples <- OneSample
  Mortal = {w2, w3}
  ServerMayDie = FALSE
INVARIANTS
  SelectCoversSlots FeatureAgreement GradientsFitModel WeightsComplete
  WorkerBuffersSuffice
PROPERTIES
  OnlyDroppedFdsForgotten
CHECK_DEADLOCK FALSE
