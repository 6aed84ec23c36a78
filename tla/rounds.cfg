SPECIFICATION Spec
CONSTANTS
  w1 = w1
  w2 = w2
  w3 = w3
  Workers = {w1, w2, w3}
  NoWorker = NoWorker
  MaxWorkers = 2
  MaxFeatures = 3
  MaxRounds = 1
  ExpectedWorkers = 1
  Features <- UniformFeatures
  Samples <- OneSample
  Mortal = {w1, w2, w3}
  ServerMayDie = FALSE
INVARIANTS
  TypeOK SelectCoversSlots ReadNeverBlocks OneMessageInFlight
  RoundLockstep NoStaleGradient GradientsFitModel ModelFollowsRounds
  BarrierNotStuck FinalModelAgreement
PROPERTIES
  OnlyDeadParticipantsDropped NoWorkLeftBehind ImplementsSync
SYMMETRY AnyOrder
CHECK_DEADLOCK FALSE
