-------------------------- MODULE RefinementProofs --------------------------
(***************************************************************************)
(* The model and the feature counts of Training, and that the server, the  *)
(* workers and their connections implement synchronous training, for every *)
(* value of the constants in which no shard has MAX_FEATURES features.     *)
(***************************************************************************)
EXTENDS Refinement, RoundProofs

\* A shard of MAX_FEATURES features is taken for none: num_features keeps the value
\* that says it is to be learned, and the next registration initialises the model.
\* What follows is about shards that do not do that.
LearnableShapes == \A w \in Workers : Features[w] # MaxFeatures

\* As long as the feature count is to be learned there is nothing to lose.
LearningOK ==
  Learning => ~ weights_broadcast /\ pc # "bcast" /\ global_weights = 0

\* What the server sends has the shape of the worker's shard.
StreamShapesOK ==
  \A w \in Workers : down[w] # <<>> => Head(down[w]).nf = Features[w]

\* What is under way between the server and a participant is about the
\* server's model.
FitsModel(w) ==
  /\ Holds(down[w], "weights") => Head(down[w]).model = global_weights
  /\ wpc[w] = "computing" => wmodel[w] = global_weights
  /\ Holds(up[w], "gradient") => Head(up[w]).model = global_weights

WorkFitsModel == \A i \in Training : FitsModel(who[i])

\* A worker without samples is not registered.
SamplesOK == \A i \in Registered : num_samples[i] > 0

\* A stored gradient was taken at the server's model.
GradientsTakenHere == \A i \in Training : gradient_received[i] => gradients[i] = global_weights

ShapesOK ==
  /\ FeatureAgreement /\ SamplesOK /\ LearningOK /\ StreamShapesOK /\ WeightsComplete
  /\ ModelFollowsRounds /\ GradientsTakenHere /\ WorkFitsModel

MInv == RInv /\ ShapesOK

-----------------------------------------------------------------------------
(* The steps of the server.                                                *)

\* The slots in use belong to workers, also when the server has exited.
LEMMA SlotWorkers ==
  ASSUME RInv
  PROVE  \A i \in Active : i \in Slots /\ who[i] \in Workers
  BY DEF RInv, RoundsOK, PhaseOK, IInv, Consistent, SelectCoversSlots, Active

\* Once a worker has registered, the feature count is learned.
LEMMA ShapeLearned ==
  ASSUME MInv, LearnableShapes, Registered # {}
  PROVE  ~ Learning
<1>1. PICK i : i \in Registered
  OBVIOUS
<1>2. who[i] \in Workers /\ Features[who[i]] = num_features
  BY <1>1, SlotWorkers DEF Registered, MInv, ShapesOK, FeatureAgreement
<1>3. QED
  BY <1>2 DEF Learning, LearnableShapes

\* A step that neither changes the model nor learns the feature count: slots may
\* be cleared, and a participant at rest may be sent what fits.
LEMMA ShapesKept ==
  ASSUME MInv,
         UNCHANGED <<wpc, wmodel, num_features, global_weights, current_round>>,
         \A w \in Workers : up'[w] = up[w] \/ up'[w] = <<>>,
         \A w \in Workers :
           \/ down'[w] = down[w] \/ down'[w] = <<>>
           \/ /\ Head(down'[w]).nf = Features[w]
              /\ Head(down'[w]).type = "weights" => Head(down'[w]).model = global_weights,
         \A i \in Registered' :
           i \in Registered /\ who'[i] = who[i] /\ num_samples'[i] = num_samples[i],
         \A i \in Training' :
           \/ /\ i \in Training
              /\ gradients'[i] = gradients[i] /\ (gradient_received'[i] => gradient_received[i])
           \/ AtRest(who[i]) /\ ~ gradient_received'[i],
         Learning => ~ weights_broadcast' /\ pc' # "bcast",
         outcome' # outcome => outcome' \in {"complete", "killed"} \/ outcome \notin {"complete", "killed"}
  PROVE  ShapesOK'
<1> USE DEF MInv, ShapesOK
<1>1. Training' \subseteq Registered' /\ \A i \in Registered : who[i] \in Workers
  BY SlotWorkers DEF Training, Registered
<1>2. FeatureAgreement' /\ SamplesOK'
  BY DEF FeatureAgreement, SamplesOK
<1>3. LearningOK'
  BY DEF LearningOK, Learning
<1>4. StreamShapesOK' /\ WeightsComplete'
  BY DEF StreamShapesOK, WeightsComplete
<1>5. ModelFollowsRounds'
  BY DEF ModelFollowsRounds
<1>6. GradientsTakenHere'
  BY DEF GradientsTakenHere
<1>7. WorkFitsModel'
  <2> SUFFICES ASSUME NEW i \in Training' PROVE FitsModel(who[i])'
    BY DEF WorkFitsModel
  <2>1. i \in Registered /\ who'[i] = who[i] /\ who[i] \in Workers
    BY <1>1
  <2>2. CASE i \in Training
    BY <2>1, <2>2 DEF WorkFitsModel, FitsModel, Holds
  <2>3. CASE AtRest(who[i])
    BY <2>1, <2>3 DEF AtRest, FitsModel, Holds
  <2>4. QED
    BY <2>2, <2>3
<1>8. QED
  BY <1>2, <1>3, <1>4, <1>5, <1>6, <1>7

\* main's loop moves on, reads nothing, accepts, drops a slot, or ends.
LEMMA TableShapes ==
  ASSUME MInv, LearnableShapes, UNCHANGED workerVars,
         \/ Select \/ SelectFails \/ Accept \/ AcceptTableFull \/ AcceptFails \/ NothingToAccept
         \/ ReadSkip \/ ReadIncomplete \/ ReadDisconnect \/ ReadLoopEnds
         \/ TrainStart \/ BroadcastFails \/ BroadcastSkip \/ BroadcastEnds
         \/ Abandon \/ KeepWaiting \/ DoneSkip \/ DoneEnds \/ Shutdown \/ ServerCrash
  PROVE  ShapesOK'
<1> USE DEF workerVars, netVars, slotVars, selectVars, trainVars, GoTo, NextSlot
<1>1. UNCHANGED <<wpc, wmodel, num_features, global_weights, current_round>>
  BY DEF Select, SelectFails, Accept, AcceptTableFull, AcceptFails, NothingToAccept, ReadSkip,
         ReadIncomplete, ReadDisconnect, ReadLoopEnds, TrainStart, BroadcastFails, BroadcastSkip,
         BroadcastEnds, Abandon, KeepWaiting, DoneSkip, DoneEnds, Shutdown, ServerCrash, CloseAll
<1>2. \A w \in Workers : up'[w] = up[w] \/ up'[w] = <<>>
  <2>1. CASE ReadIncomplete
    <3>1. ReadingSlot
      BY <2>1 DEF ReadIncomplete
    <3>2. QED
      BY <2>1, <3>1, ReadingFacts DEF ReadIncomplete, MInv
  <2>2. CASE ~ ReadIncomplete
    BY <2>2 DEF Select, SelectFails, Accept, AcceptTableFull, AcceptFails, NothingToAccept, ReadSkip,
         ReadDisconnect, ReadLoopEnds, TrainStart, BroadcastFails, BroadcastSkip,
         BroadcastEnds, Abandon, KeepWaiting, DoneSkip, DoneEnds, Shutdown, ServerCrash, CloseAll
  <2>3. QED
    BY <2>1, <2>2
<1>3. \A w \in Workers : down'[w] = down[w] \/ down'[w] = <<>>
  BY DEF Select, SelectFails, Accept, AcceptTableFull, AcceptFails, NothingToAccept, ReadSkip,
         ReadIncomplete, ReadDisconnect, ReadLoopEnds, TrainStart, BroadcastFails, BroadcastSkip,
         BroadcastEnds, Abandon, KeepWaiting, DoneSkip, DoneEnds, Shutdown, ServerCrash, CloseAll
<1>4. /\ \A i \in Registered' :
           i \in Registered /\ who'[i] = who[i] /\ num_samples'[i] = num_samples[i]
      /\ \A i \in Training' :
           /\ i \in Training
           /\ gradients'[i] = gradients[i] /\ (gradient_received'[i] => gradient_received[i])
  <2>1. CASE UNCHANGED <<fd, who, state, num_samples, gradient_received, gradients>>
    BY <2>1 DEF Registered, Training, Active, Occupied
  <2>2. CASE ReadDisconnect \/ BroadcastFails
    <3>1. PICK j : handle_disconnect(j)
      BY <2>2 DEF ReadDisconnect, BroadcastFails
    <3>2. /\ \A i \in Active' : i \in Active /\ i # j /\ who'[i] = who[i] /\ state'[i] = state[i]
          /\ UNCHANGED <<num_samples, gradients>>
      BY <3>1 DEF handle_disconnect, Active, Occupied, MInv, RInv, IInv, TypeOK, ServerTypeOK
    <3>3. gradient_received' = [gradient_received EXCEPT ![j] = FALSE]
      BY <3>1 DEF handle_disconnect
    <3>4. \A i \in Active' : gradient_received'[i] = gradient_received[i]
      BY <3>2, <3>3, Zenon DEF Active, MInv, RInv, IInv, TypeOK, ServerTypeOK
    <3>5. QED
      BY <3>2, <3>4 DEF Registered, Training
  <2>3. CASE Accept
    <3>1. PICK f \in Fds, j \in Slots : add_worker(j, f, Head(backlog))
      BY <2>3 DEF Accept
    <3>2. state'[j] = 0 /\ \A i \in Active' \ {j} :
            /\ i \in Active /\ who'[i] = who[i] /\ state'[i] = state[i]
            /\ num_samples'[i] = num_samples[i] /\ gradients'[i] = gradients[i]
      BY <3>1 DEF add_worker, Active, Occupied, MInv, RInv, IInv, TypeOK, ServerTypeOK
    <3>3. gradient_received' = [gradient_received EXCEPT ![j] = FALSE]
      BY <3>1 DEF add_worker
    <3>4. \A i \in Active' \ {j} : gradient_received'[i] = gradient_received[i]
      BY <3>3, Zenon DEF Active, MInv, RInv, IInv, TypeOK, ServerTypeOK
    <3>5. QED
      BY <3>2, <3>4 DEF Registered, Training
  <2>4. QED
    BY <2>1, <2>2, <2>3
       DEF Select, SelectFails, AcceptTableFull, AcceptFails, NothingToAccept, ReadSkip,
         ReadIncomplete, ReadLoopEnds, TrainStart, BroadcastSkip,
         BroadcastEnds, Abandon, KeepWaiting, DoneSkip, DoneEnds, Shutdown, ServerCrash, CloseAll
<1>5. Learning => ~ weights_broadcast' /\ pc' # "bcast"
  <2>1. SUFFICES ASSUME Learning PROVE ~ weights_broadcast' /\ pc' # "bcast"
    OBVIOUS
  <2>2. ~ weights_broadcast /\ pc # "bcast"
    BY <2>1 DEF MInv, ShapesOK, LearningOK
  <2>3. CASE TrainStart
    <3>1. Registered = {} /\ ExpectedWorkers > 0
      BY <2>1, ShapeLearned, ConstantsAssumption DEF ConstantsAssumption
    <3>2. ~ EnoughWorkers
      BY <3>1, FS_EmptySet, ConstantsAssumption DEF EnoughWorkers, ConstantsAssumption
    <3>3. QED
      BY <2>2, <2>3, <3>2 DEF TrainStart
  <2>4. CASE ~ TrainStart
    <3>1. weights_broadcast' = weights_broadcast
      BY <2>2, Zenon
         DEF Select, SelectFails, Accept, AcceptTableFull, AcceptFails, NothingToAccept, ReadSkip,
         ReadIncomplete, ReadDisconnect, ReadLoopEnds, TrainStart, BroadcastFails, BroadcastSkip,
         BroadcastEnds, Abandon, KeepWaiting, DoneSkip, DoneEnds, Shutdown, ServerCrash, CloseAll
    <3>2. pc' # "bcast"
      BY <2>2, <2>4
         DEF Select, SelectFails, Accept, AcceptTableFull, AcceptFails, NothingToAccept, ReadSkip,
         ReadIncomplete, ReadDisconnect, ReadLoopEnds, TrainStart, BroadcastFails, BroadcastSkip,
         BroadcastEnds, Abandon, KeepWaiting, DoneSkip, DoneEnds, Shutdown, ServerCrash, CloseAll
    <3>3. QED
      BY <2>2, <3>1, <3>2
  <2>5. QED
    BY <2>3, <2>4
<1>6. outcome' # outcome => outcome' \in {"complete", "killed"} \/ outcome \notin {"complete", "killed"}
  BY DEF Select, SelectFails, Accept, AcceptTableFull, AcceptFails, NothingToAccept, ReadSkip,
         ReadIncomplete, ReadDisconnect, ReadLoopEnds, TrainStart, BroadcastFails, BroadcastSkip,
         BroadcastEnds, Abandon, KeepWaiting, DoneSkip, DoneEnds, Shutdown, ServerCrash, CloseAll,
         MInv, RInv, RoundsOK, PhaseOK
<1>7. QED
  BY <1>1, <1>2, <1>3, <1>4, <1>5, <1>6, ShapesKept

\* A registration: the first one fixes the feature count, the others have it, and
\* no registration touches the model.
LEMMA RegisterShapes ==
  ASSUME MInv, LearnableShapes, UNCHANGED workerVars, DispatchRegister
  PROVE  ShapesOK'
<1> USE DEF MInv, workerVars, selectVars, NextSlot
<1>1. PICK i : i = cursor
  OBVIOUS
<1> DEFINE w == who[i]
<1> DEFINE m == RegisterMsg(w)
<1>2. /\ handle_register(i, m) /\ state[i] = 0 /\ up'[w] = <<>>
      /\ \A v \in Workers \ {w} : up'[v] = up[v]
  BY <1>1, RegisterFacts
<1>3. /\ i \in Slots /\ i \in Active /\ w \in Workers /\ pc = "read" /\ outcome = "running"
      /\ UNCHANGED <<wpc, wmodel, down, current_round, weights_broadcast, outcome, pc>>
  BY <1>1, ReadingFacts DEF DispatchRegister
<1>4. global_weights' = global_weights
  BY <1>2 DEF handle_register, ShapesOK, LearningOK
<1>5. CASE handle_disconnect(i) /\ num_features' = num_features
  <2>1. /\ \A j \in Active' : j \in Active /\ j # i /\ who'[j] = who[j] /\ state'[j] = state[j]
        /\ UNCHANGED <<num_samples, gradients>>
    BY <1>3, <1>5 DEF handle_disconnect, Active, Occupied, RInv, IInv, TypeOK, ServerTypeOK
  <2>2. gradient_received' = [gradient_received EXCEPT ![i] = FALSE]
    BY <1>5 DEF handle_disconnect
  <2>3. \A j \in Active' : gradient_received'[j] = gradient_received[j]
    BY <2>1, <2>2, Zenon DEF Active, RInv, IInv, TypeOK, ServerTypeOK
  <2>4. /\ \A j \in Registered' :
             j \in Registered /\ who'[j] = who[j] /\ num_samples'[j] = num_samples[j]
        /\ \A j \in Training' :
             /\ j \in Training
             /\ gradients'[j] = gradients[j] /\ (gradient_received'[j] => gradient_received[j])
    BY <2>1, <2>3 DEF Registered, Training
  <2>5. Learning => ~ weights_broadcast' /\ pc' # "bcast"
    BY <1>3 DEF ShapesOK, LearningOK
  <2>6. QED
    BY <1>2, <1>3, <1>4, <1>5, <2>4, <2>5, ShapesKept
<1>6. CASE /\ ShapeOK(m) /\ num_features' = m.nf /\ state' = [state EXCEPT ![i] = 1]
           /\ num_samples' = [num_samples EXCEPT ![i] = m.ns] /\ m.ns > 0
           /\ UNCHANGED <<fd, who, gradient_received, gradients>>
  <2>1. Features[w] = num_features' /\ (Learning \/ num_features' = num_features)
    BY <1>6 DEF ShapeOK, RegisterMsg
  <2>2. /\ Active' = Active /\ Training' = Training
        /\ \A j \in Registered' : j = i \/ j \in Registered
    <3>1. Active' = Active
      BY <1>6 DEF Active, Occupied
    <3>2. /\ state'[i] = 1 /\ \A j \in Active \ {i} : state'[j] = state[j]
      BY <1>3, <1>6 DEF Active, RInv, IInv, TypeOK, ServerTypeOK
    <3>3. QED
      BY <1>2, <1>3, <3>1, <3>2 DEF Training, Registered
  <2>3. Registered # {} => num_features' = num_features
    BY <2>1, ShapeLearned
  <2>4. FeatureAgreement'
    BY <1>6, <2>1, <2>2, <2>3 DEF ShapesOK, FeatureAgreement
  <2>5. SamplesOK'
    <3>1. num_samples'[i] = m.ns /\ \A j \in Slots \ {i} : num_samples'[j] = num_samples[j]
      BY <1>3, <1>6 DEF RInv, IInv, TypeOK, ServerTypeOK
    <3>2. QED
      BY <1>6, <2>2, <3>1, SlotWorkers DEF ShapesOK, SamplesOK, Registered
  <2>6. ~ Learning'
    BY <1>3, <2>1 DEF Learning, LearnableShapes
  <2>7. StreamShapesOK' /\ WeightsComplete' /\ ModelFollowsRounds'
    BY <1>3, <1>4 DEF ShapesOK, StreamShapesOK, WeightsComplete, ModelFollowsRounds
  <2>8. GradientsTakenHere'
    BY <1>4, <1>6, <2>2 DEF ShapesOK, GradientsTakenHere
  <2>9. WorkFitsModel'
    <3> SUFFICES ASSUME NEW j \in Training PROVE FitsModel(who[j])'
      BY <1>6, <2>2 DEF WorkFitsModel
    <3>1. FitsModel(who[j]) /\ who[j] \in Workers
      BY SlotWorkers DEF ShapesOK, WorkFitsModel, Training
    <3>2. QED
      BY <1>2, <1>3, <1>4, <1>6, <3>1 DEF FitsModel, Holds
  <2>10. QED
    BY <2>4, <2>5, <2>6, <2>7, <2>8, <2>9 DEF ShapesOK, LearningOK
<1>7. (ShapeOK(m) /\ m.ns > 0) \/ handle_disconnect(i)
  BY <1>2 DEF handle_register
<1>8. m.ns > 0
  BY <1>3, ConstantsAssumption DEF RegisterMsg, ConstantsAssumption
<1>9. CASE ShapeOK(m)
  BY <1>2, <1>6, <1>8, <1>9 DEF handle_register
<1>10. CASE ~ ShapeOK(m)
  BY <1>2, <1>5, <1>10 DEF handle_register
<1>11. QED
  BY <1>9, <1>10

\* A gradient is stored that was taken at the server's model.
LEMMA GradientShapes ==
  ASSUME MInv, UNCHANGED workerVars, DispatchGradient
  PROVE  ShapesOK'
<1> USE DEF MInv, workerVars, selectVars, trainVars, NextSlot
<1>1. PICK i : i = cursor
  OBVIOUS
<1> DEFINE w == who[i]
<1>2. /\ state[i] = 2
      /\ gradients' = [gradients EXCEPT ![i] = Head(up[w]).model]
      /\ Holds(up[w], "gradient") /\ up'[w] = <<>>
      /\ \A v \in Workers \ {w} : up'[v] = up[v]
  BY <1>1, GradientFacts
<1>3. \A j \in Slots \ {i} : gradient_received'[j] = gradient_received[j]
  BY <1>1, GradientFacts
<1>4. /\ i \in Active /\ i \in Slots /\ pc = "read"
      /\ UNCHANGED <<down, wpc, wmodel, fd, who, state, num_samples, num_features, current_round>>
      /\ UNCHANGED <<global_weights, weights_broadcast, outcome, pc>>
  BY <1>1, ReadingFacts DEF DispatchGradient
<1>5. /\ Active' = Active /\ Training' = Training /\ Registered' = Registered
      /\ i \in Training /\ Training \subseteq Slots
  BY <1>2, <1>4 DEF Active, Occupied, Training, Registered
<1>6. /\ FeatureAgreement' /\ SamplesOK' /\ LearningOK'
      /\ StreamShapesOK' /\ WeightsComplete' /\ ModelFollowsRounds'
  BY <1>4, <1>5 DEF ShapesOK, FeatureAgreement, SamplesOK, LearningOK, Learning, StreamShapesOK,
                    WeightsComplete, ModelFollowsRounds
<1>7. GradientsTakenHere'
  <2>1. gradients'[i] = global_weights
    BY <1>2, <1>5 DEF ShapesOK, WorkFitsModel, FitsModel, RInv, IInv, TypeOK, ServerTypeOK
  <2>2. \A j \in Slots \ {i} : gradients'[j] = gradients[j]
    BY <1>2 DEF RInv, IInv, TypeOK, ServerTypeOK
  <2>3. QED
    BY <1>3, <1>4, <1>5, <2>1, <2>2 DEF ShapesOK, GradientsTakenHere
<1>8. WorkFitsModel'
  <2> SUFFICES ASSUME NEW j \in Training PROVE FitsModel(who[j])'
    BY <1>4, <1>5 DEF WorkFitsModel
  <2>1. FitsModel(who[j]) /\ who[j] \in Workers
    BY SlotWorkers DEF ShapesOK, WorkFitsModel, Training
  <2>2. QED
    BY <1>2, <1>4, <2>1 DEF FitsModel, Holds
<1>9. QED
  BY <1>6, <1>7, <1>8 DEF ShapesOK

\* A broadcast sends what fits the shard, and the weights are the server's model.
LEMMA SendShapes ==
  ASSUME MInv, UNCHANGED workerVars, BroadcastSend \/ DoneSend
  PROVE  ShapesOK'
<1> USE DEF MInv, workerVars, slotVars, selectVars, trainVars, NextSlot
<1>1. PICK i : i = cursor
  OBVIOUS
<1> DEFINE w == who[i]
<1>2. i \in Active /\ i \in Slots /\ w \in Workers /\ AtRest(w) /\ state[i] # 0
  BY <1>1, BroadcastFacts
<1>3. /\ UNCHANGED <<wpc, wmodel, num_features, global_weights, current_round, up, fd, who>>
      /\ UNCHANGED <<num_samples, gradients, weights_broadcast, pc, outcome>>
  BY DEF BroadcastSend, DoneSend
<1>4. \A v \in Workers :
        \/ down'[v] = down[v] \/ down'[v] = <<>>
        \/ /\ Head(down'[v]).nf = Features[v]
           /\ Head(down'[v]).type = "weights" => Head(down'[v]).model = global_weights
  <2>1. \A v \in Workers \ {w} : down'[v] = down[v]
    BY <1>1, <1>2 DEF BroadcastSend, DoneSend, Write, RInv, IInv, TypeOK, NetTypeOK
  <2>2. num_features = Features[w]
    BY <1>2 DEF ShapesOK, FeatureAgreement, Registered, RInv, IInv, TypeOK, ServerTypeOK
  <2>3. down[w] = <<>>
    BY <1>2 DEF AtRest
  <2>4. CASE BroadcastSend
    <3> DEFINE m == WeightsMsg(current_round, num_features, global_weights)
    <3>1. m \in DownMsgs /\ m.nf = Features[w] /\ m.model = global_weights
      BY <2>2 DEF WeightsMsg, DownMsgs, RInv, IInv, TypeOK, ServerTypeOK
    <3>2. down'[w] = <<>> \/ down'[w] = Append(<<>>, m)
      BY <1>1, <1>2, <2>3, <2>4 DEF BroadcastSend, Write, RInv, IInv, TypeOK, NetTypeOK
    <3>3. QED
      BY <2>1, <3>1, <3>2, FirstMessage
  <2>5. CASE DoneSend
    <3> DEFINE m == DoneMsg(num_features, global_weights)
    <3>1. m \in DownMsgs /\ m.nf = Features[w] /\ m.type = "done"
      BY <2>2 DEF DoneMsg, DownMsgs, RInv, IInv, TypeOK, ServerTypeOK
    <3>2. down'[w] = <<>> \/ down'[w] = Append(<<>>, m)
      BY <1>1, <1>2, <2>3, <2>5 DEF DoneSend, Write, RInv, IInv, TypeOK, NetTypeOK
    <3>3. QED
      BY <2>1, <3>1, <3>2, FirstMessage
  <2>6. QED
    BY <2>4, <2>5
<1>5. Active' = Active /\ \A j \in Active \ {i} : state'[j] = state[j]
  <2>1. Active' = Active
    BY <1>3 DEF Active, Occupied
  <2>2. QED
    BY <1>1, <1>2, <2>1 DEF BroadcastSend, DoneSend, Active, RInv, IInv, TypeOK, ServerTypeOK
<1>6. gradient_received' = gradient_received \/ gradient_received' = [gradient_received EXCEPT ![i] = FALSE]
  BY <1>1 DEF BroadcastSend, DoneSend
<1>7. ~ gradient_received'[i] /\ \A j \in Active \ {i} : gradient_received'[j] = gradient_received[j]
  <2>1. ~ gradient_received[i]
    BY <1>1, BroadcastFacts
  <2>2. QED
    BY <1>2, <1>6, <2>1, Zenon DEF Active, RInv, IInv, TypeOK, ServerTypeOK
<1>8. \A j \in Registered' :
        j \in Registered /\ who'[j] = who[j] /\ num_samples'[j] = num_samples[j]
  BY <1>2, <1>3, <1>5 DEF Registered, RInv, IInv, TypeOK, ServerTypeOK
<1>9. \A j \in Training' :
        \/ /\ j \in Training
           /\ gradients'[j] = gradients[j] /\ (gradient_received'[j] => gradient_received[j])
        \/ AtRest(who[j]) /\ ~ gradient_received'[j]
  BY <1>2, <1>3, <1>5, <1>7 DEF Training
<1>10. Learning => ~ weights_broadcast' /\ pc' # "bcast"
  BY <1>3 DEF ShapesOK, LearningOK
<1>11. QED
  BY <1>3, <1>4, <1>8, <1>9, <1>10, ShapesKept

\* The update: nothing is under way that the new model would not fit.
LEMMA UpdateShapes ==
  ASSUME MInv, UNCHANGED workerVars, Aggregate
  PROVE  ShapesOK'
<1> USE DEF MInv, workerVars, netVars, selectVars, GoTo
<1>1. /\ pc = "check" /\ outcome = "running" /\ weights_broadcast
      /\ \A i \in Training : gradient_received[i]
  BY DEF Aggregate, all_gradients_received, RInv, RoundsOK, PhaseOK
<1>2. /\ UNCHANGED <<up, down, fd, who, state, num_samples, gradients, wpc, wmodel>>
      /\ UNCHANGED <<num_features, weights_broadcast>>
      /\ gradient_received' = [i \in Slots |-> gradient_received[i] /\ i \notin Training]
  BY DEF Aggregate, aggregate_and_update
<1>3. /\ Active' = Active /\ Training' = Training /\ Registered' = Registered
      /\ Training \subseteq Slots
  BY <1>2 DEF Active, Occupied, Training, Registered
<1>4. FeatureAgreement' /\ SamplesOK' /\ LearningOK' /\ StreamShapesOK' /\ WeightsComplete'
  BY <1>1, <1>2, <1>3 DEF ShapesOK, FeatureAgreement, SamplesOK, LearningOK, Learning, StreamShapesOK,
                          WeightsComplete
<1>5. ModelFollowsRounds'
  <2>1. global_weights = current_round /\ current_round \in Nat
    BY <1>1 DEF ShapesOK, ModelFollowsRounds, RInv, IInv, TypeOK, ServerTypeOK
  <2>2. PICK below \in BOOLEAN :
          /\ aggregate_and_update(below)
          /\ \/ outcome' = "complete" /\ UNCHANGED current_round
             \/ ~ below /\ current_round' = current_round + 1
    BY DEF Aggregate, check_termination
  <2>3. global_weights' = global_weights + 1 \/ (global_weights' = global_weights /\ below)
    BY <2>1, <2>2 DEF aggregate_and_update
  <2>4. QED
    BY <2>1, <2>2, <2>3 DEF ModelFollowsRounds
<1>6. \A i \in Training : ~ gradient_received'[i]
  BY <1>2, <1>3, Zenon
<1>7. GradientsTakenHere'
  BY <1>3, <1>6 DEF GradientsTakenHere
<1>8. WorkFitsModel'
  BY <1>1, <1>2, <1>3, GradientIn DEF WorkFitsModel, FitsModel, AtRest, Holds
<1>9. QED
  BY <1>4, <1>5, <1>7, <1>8 DEF ShapesOK

\* Every step of the server keeps the shapes.
LEMMA ServerShapes ==
  ASSUME MInv, LearnableShapes, ServerNext \/ ServerCrash, UNCHANGED workerVars
  PROVE  ShapesOK'
  BY TableShapes, RegisterShapes, GradientShapes, SendShapes, UpdateShapes DEF ServerNext

-----------------------------------------------------------------------------
(* The steps of a worker.                                                  *)

\* What has to be shown of a step of worker w: what it is sent, what it computes on
\* and what it sends.
LEMMA OwnShapes ==
  ASSUME MInv, NEW w \in Workers, Start(w) \/ WorkerStep(w) \/ Crash(w), UNCHANGED serverVars,
         down'[w] = down[w] \/ down'[w] = <<>>,
         wpc'[w] = "computing" => wmodel'[w] # Mixed,
         (\E i \in Training : who[i] = w) => FitsModel(w)'
  PROVE  ShapesOK'
<1> USE DEF MInv, serverVars, slotVars, selectVars, trainVars
<1>1. Active' = Active /\ Training' = Training /\ Registered' = Registered
  BY DEF Active, Occupied, Training, Registered
<1>2. FeatureAgreement' /\ SamplesOK' /\ LearningOK' /\ ModelFollowsRounds' /\ GradientsTakenHere'
  BY <1>1 DEF ShapesOK, FeatureAgreement, SamplesOK, LearningOK, Learning, ModelFollowsRounds, GradientsTakenHere
<1>3. \A v \in Workers \ {w} :
        up'[v] = up[v] /\ down'[v] = down[v] /\ wpc'[v] = wpc[v] /\ wmodel'[v] = wmodel[v]
  BY Elsewhere
<1>4. StreamShapesOK'
  BY <1>3 DEF ShapesOK, StreamShapesOK
<1>5. WeightsComplete'
  BY <1>3 DEF ShapesOK, WeightsComplete
<1>6. WorkFitsModel'
  <2> SUFFICES ASSUME NEW i \in Training PROVE FitsModel(who[i])'
    BY <1>1 DEF WorkFitsModel
  <2>1. FitsModel(who[i]) /\ who[i] \in Workers
    BY SlotWorkers DEF ShapesOK, WorkFitsModel, Training
  <2>2. CASE who[i] = w
    BY <2>2
  <2>3. CASE who[i] # w
    BY <1>3, <2>1, <2>3 DEF FitsModel, Holds
  <2>4. QED
    BY <2>2, <2>3
<1>7. QED
  BY <1>2, <1>4, <1>5, <1>6 DEF ShapesOK

\* The weights have the shape of the shard, so all of them are copied, and the
\* gradient is taken at them.
LEMMA WorkerShapes ==
  ASSUME MInv, NEW w \in Workers, Start(w) \/ WorkerStep(w) \/ Crash(w), UNCHANGED serverVars
  PROVE  ShapesOK'
<1> USE DEF MInv, serverVars, slotVars, selectVars, trainVars
<1>1. /\ LinkOK(w) /\ up[w] \in Seq(UpMsgs) /\ down[w] \in Seq(DownMsgs)
      /\ wpc[w] = "computing" => wmodel[w] # Mixed
      /\ (\E i \in Training : who[i] = w) => FitsModel(w)
  BY OwnFacts DEF ShapesOK, WeightsComplete, WorkFitsModel
<1>2. CASE ReceiveWeights(w)
  <2>1. /\ Holds(down[w], "weights") /\ down'[w] = <<>> /\ up' = up
        /\ Head(down[w]).nf = Features[w]
    BY <1>1, <1>2 DEF ReceiveWeights, Holds, LinkOK, AtMostOne, ShapesOK, StreamShapesOK,
                      RInv, IInv, TypeOK, NetTypeOK
  <2>2. Features[w] \in Nat
    BY ConstantFacts
  <2>3. wmodel'[w] = Head(down[w]).model
    BY <1>2, <2>1, <2>2 DEF ReceiveWeights, RInv, IInv, TypeOK, WorkerTypeOK
  <2>4. Head(down[w]).model \in Nat
    <3>1. Head(down[w]) \in DownMsgs
      BY <1>1, <2>1 DEF Holds
    <3>2. QED
      BY <2>1, <3>1 DEF DownMsgs, Holds
  <2>5. wmodel'[w] # Mixed
    BY <2>3, <2>4 DEF Mixed
  <2>6. FitsModel(w) => FitsModel(w)'
    BY <2>1, <2>3 DEF FitsModel, Holds
  <2>7. QED
    BY <1>1, <2>1, <2>5, <2>6, OwnShapes
<1>3. CASE SendGradient(w)
  <2> DEFINE m == GradientMsg(w, wround[w], wmodel[w])
  <2>1. /\ wpc[w] = "computing" /\ wpc'[w] = "waiting" /\ down' = down /\ up[w] = <<>>
        /\ down[w] = <<>>
    BY <1>1, <1>3 DEF SendGradient, Continue, LinkOK, RInv, IInv, TypeOK, WorkerTypeOK
  <2>2. up'[w] = <<>> \/ up'[w] = Append(<<>>, m)
    BY <1>3, <2>1 DEF SendGradient, WorkerWrite, RInv, IInv, TypeOK, NetTypeOK
  <2>3. up'[w] # <<>> => Head(up'[w]) = m
    BY <2>2, UpMsgTypes, FirstMessage DEF RInv
  <2>4. m.model = wmodel[w]
    BY DEF GradientMsg
  <2>5. FitsModel(w) => FitsModel(w)'
    BY <2>1, <2>3, <2>4 DEF FitsModel, Holds
  <2>6. QED
    BY <1>1, <2>1, <2>5, OwnShapes
<1>4. CASE ~ ReceiveWeights(w) /\ ~ SendGradient(w)
  <2>1. wpc'[w] # "computing"
    BY <1>1, <1>4
       DEF Start, Connect, ConnectRefused, WorkerStep, SendRegister, WriteRefused, ReceiveDone,
           ReadEof, Crash, Leave, Continue, RInv, IInv, TypeOK, WorkerTypeOK
  <2>2. down'[w] = down[w] \/ down'[w] = <<>>
    BY <1>1, <1>4
       DEF Start, Connect, ConnectRefused, netVars, WorkerStep, SendRegister, WriteRefused, ReceiveDone,
           ReadEof, Crash, LinkOK, AtMostOne, RInv, IInv, TypeOK, NetTypeOK
  <2>3. up'[w] = up[w] \/ ~ Holds(up'[w], "gradient")
    <3>1. Append(<<>>, Fragment) = <<Fragment>> /\ Fragment \in UpMsgs /\ RegisterMsg(w) \in UpMsgs
      BY UpMsgTypes DEF UpMsgs, RInv
    <3>2. ~ Holds(Append(<<>>, Fragment), "gradient") /\ ~ Holds(Append(<<>>, RegisterMsg(w)), "gradient")
      BY <3>1, FirstMessage DEF Holds, Fragment, RegisterMsg
    <3>3. wpc[w] \in {"connected", "computing"} => up[w] = <<>>
      BY <1>1 DEF LinkOK
    <3>4. CASE SendRegister(w)
      BY <3>2, <3>3, <3>4 DEF SendRegister, WorkerWrite, RInv, IInv, TypeOK, NetTypeOK
    <3>5. CASE Crash(w)
      BY <3>1, <3>2, <3>3, <3>5 DEF Crash, WorkerWrite, Holds, RInv, IInv, TypeOK, NetTypeOK
    <3>6. QED
      BY <1>4, <3>4, <3>5
         DEF Start, Connect, ConnectRefused, netVars, WorkerStep, WriteRefused, ReceiveDone, ReadEof
  <2>4. FitsModel(w) => FitsModel(w)'
    BY <2>1, <2>2, <2>3 DEF FitsModel, Holds
  <2>5. QED
    BY <1>1, <2>1, <2>2, <2>4, OwnShapes
<1>5. QED
  BY <1>2, <1>3, <1>4

-----------------------------------------------------------------------------
(* MInv is an inductive invariant.                                         *)

\* Nobody has registered yet.
LEMMA InitMInv == Init => MInv
<1> SUFFICES ASSUME Init PROVE ShapesOK
  BY InitRInv DEF MInv
<1> USE DEF Init, NetInit, ServerInit, WorkerInit
<1>1. Active = {} /\ Training = {} /\ Registered = {}
  BY DEF Active, Occupied, Training, Registered
<1>2. FeatureAgreement /\ SamplesOK /\ GradientsTakenHere /\ WorkFitsModel
  BY <1>1 DEF FeatureAgreement, SamplesOK, GradientsTakenHere, WorkFitsModel
<1>3. LearningOK /\ StreamShapesOK /\ WeightsComplete /\ ModelFollowsRounds
  BY DEF LearningOK, StreamShapesOK, WeightsComplete, ModelFollowsRounds
<1>4. QED
  BY <1>2, <1>3 DEF ShapesOK

\* MInv is inductive, if no shard has MAX_FEATURES features.
LEMMA NextMInv ==
  ASSUME LearnableShapes
  PROVE  MInv /\ [Next]_vars => MInv'
<1> SUFFICES ASSUME MInv, [Next]_vars PROVE ShapesOK'
  BY NextRInv DEF MInv
<1>1. CASE (ServerNext \/ ServerCrash) /\ UNCHANGED workerVars
  BY <1>1, ServerShapes
<1>2. ASSUME NEW w \in Workers, Start(w) \/ WorkerStep(w) \/ Crash(w), UNCHANGED serverVars
      PROVE  ShapesOK'
  BY <1>2, WorkerShapes
<1>3. CASE UNCHANGED vars
  <2> USE DEF vars, netVars, serverVars, workerVars, slotVars, selectVars, trainVars
  <2>1. Training' = Training /\ Registered' = Registered
    BY <1>3 DEF Active, Occupied, Training, Registered
  <2>2. Learning => ~ weights_broadcast' /\ pc' # "bcast"
    BY <1>3 DEF MInv, ShapesOK, LearningOK
  <2>3. QED
    BY <1>3, <2>1, <2>2, ShapesKept
<1>4. QED
  BY <1>1, <1>2, <1>3 DEF Next

\* MInv is an invariant of the system, if no shard has MAX_FEATURES features.
THEOREM ModelInvariance ==
  ASSUME LearnableShapes
  PROVE  Spec => []MInv
  BY InitMInv, NextMInv, PTL DEF Spec

-----------------------------------------------------------------------------
(* What follows.                                                           *)

\* handle_register keeps out every worker of another shape: all slots it registered
\* have the feature count the server trains with.
THEOREM OneShape ==
  ASSUME LearnableShapes
  PROVE  Spec => []FeatureAgreement
<1>1. MInv => FeatureAgreement
  BY DEF MInv, ShapesOK
<1>2. QED
  BY <1>1, ModelInvariance, PTL

\* No worker computes on weights of which it received only a part.
THEOREM WholeWeights ==
  ASSUME LearnableShapes
  PROVE  Spec => []WeightsComplete
<1>1. MInv => WeightsComplete
  BY DEF MInv, ShapesOK
<1>2. QED
  BY <1>1, ModelInvariance, PTL

\* Every gradient that waits to be averaged was taken at the model it is applied
\* to, by a worker whose shard has the shape of that model.
THEOREM FittingGradients ==
  ASSUME LearnableShapes
  PROVE  Spec => []GradientsFitModel
<1>1. MInv => GradientsFitModel
  BY DEF MInv, ShapesOK, GradientsTakenHere, FeatureAgreement, GradientsFitModel,
         Training, Registered
<1>2. QED
  BY <1>1, ModelInvariance, PTL

\* Every finished round updated the model once, and nothing ever reset it.
THEOREM OneUpdatePerRound ==
  ASSUME LearnableShapes
  PROVE  Spec => []ModelFollowsRounds
<1>1. MInv => ModelFollowsRounds
  BY DEF MInv, ShapesOK
<1>2. QED
  BY <1>1, ModelInvariance, PTL

-----------------------------------------------------------------------------
(* Synchronous training.                                                   *)

\* The members whose gradient is in, and the workers that finished.
Givers == {who[i] : i \in Contributors}
Finished == {w \in Workers : wpc[w] = "done"}

\* What the refinement mapping makes of the gradients: one value for all givers.
GivenIsModel == SyncGiven = [w \in Givers |-> global_weights]

-----------------------------------------------------------------------------
(* The refinement mapping.                                                 *)

\* The gradients that are in were all taken at the server's model, so it does not
\* matter which slot a giver is looked up in.
LEMMA GivenModel == MInv => GivenIsModel
<1> SUFFICES ASSUME MInv, NEW w \in Givers
             PROVE  gradients[CHOOSE i \in Contributors : who[i] = w] = global_weights
  BY DEF GivenIsModel, SyncGiven, Givers
<1> DEFINE j == CHOOSE i \in Contributors : who[i] = w
<1>1. \E i \in Contributors : who[i] = w
  BY DEF Givers
<1>2. j \in Contributors
  BY <1>1
<1>3. QED
  BY <1>2 DEF Contributors, MInv, ShapesOK, GradientsTakenHere

\* The same after a step.
LEMMA GivenModelNext == MInv' => GivenIsModel'
  BY GivenModel, PTL

\* The members and the givers are those of the slots that take part.
LEMMA SameMembers ==
  ASSUME Training' = Training,
         \A i \in Training : who'[i] = who[i] /\ (gradient_received'[i] <=> gradient_received[i])
  PROVE  SyncMembers' = SyncMembers /\ Givers' = Givers
<1>1. Contributors' = Contributors /\ Contributors \subseteq Training
  BY DEF Contributors
<1>2. QED
  BY <1>1 DEF SyncMembers, Givers

\* A step that changes nothing synchronous training knows of.
LEMMA SyncStutters ==
  ASSUME MInv, MInv', UNCHANGED <<current_round, global_weights>>,
         SyncPhase' = SyncPhase, SyncMembers' = SyncMembers, Givers' = Givers,
         SyncTrained' = SyncTrained
  PROVE  UNCHANGED Sync!syncVars
  BY GivenModel, GivenModelNext DEF GivenIsModel, Sync!syncVars

\* The server does not touch what a worker ended with.
LEMMA TrainedKept == UNCHANGED workerVars => SyncTrained' = SyncTrained
  BY DEF workerVars, SyncTrained

-----------------------------------------------------------------------------
(* The steps of the server.                                                *)

\* Moving on, accepting, registering, sending MSG_DONE and closing the sockets at
\* the end are not visible.
LEMMA HiddenSteps ==
  ASSUME MInv, MInv', UNCHANGED workerVars,
         \/ Select \/ Accept \/ AcceptTableFull \/ AcceptFails \/ NothingToAccept
         \/ ReadSkip \/ ReadIncomplete \/ ReadLoopEnds \/ TrainStart \/ BroadcastSkip
         \/ KeepWaiting \/ DoneSend \/ DoneSkip \/ DoneEnds \/ Shutdown
  PROVE  UNCHANGED Sync!syncVars
<1> USE DEF slotVars, trainVars, GoTo, NextSlot, MInv
<1>1. UNCHANGED <<current_round, global_weights, weights_broadcast, outcome>>
  BY Zenon DEF Select, Accept, AcceptTableFull, AcceptFails, NothingToAccept, ReadSkip, ReadIncomplete,
       ReadLoopEnds, TrainStart, BroadcastSkip, KeepWaiting, DoneSend, DoneSkip, DoneEnds,
       Shutdown, CloseAll
<1>2. SyncPhase' = SyncPhase
  <2>1. \/ pc' = "bcast" <=> pc = "bcast"
        \/ ~ weights_broadcast
    BY DEF Select, Accept, AcceptTableFull, AcceptFails, NothingToAccept, ReadSkip, ReadIncomplete,
         ReadingSlot, ReadLoopEnds, TrainStart, EnoughWorkers, BroadcastSkip, KeepWaiting, DoneSend,
         DoneSkip, DoneEnds, Shutdown, CloseAll
  <2>2. QED
    BY <1>1, <2>1 DEF SyncPhase
<1>3. /\ Training' = Training
      /\ \A i \in Training : who'[i] = who[i] /\ (gradient_received'[i] <=> gradient_received[i])
  <2>1. CASE Accept
    <3>1. PICK f \in Fds, j \in Slots : add_worker(j, f, Head(backlog))
      BY <2>1 DEF Accept
    <3>2. /\ j \notin Active /\ Active' = Active \cup {j} /\ state'[j] = 0
          /\ \A i \in Active : who'[i] = who[i] /\ state'[i] = state[i]
      BY <3>1, ConstantFacts DEF add_worker, Active, Occupied, RInv, IInv, TypeOK, ServerTypeOK
    <3>3. gradient_received' = [gradient_received EXCEPT ![j] = FALSE]
      BY <3>1 DEF add_worker
    <3>4. \A i \in Active : gradient_received'[i] = gradient_received[i]
      BY <3>2, <3>3, Zenon DEF Active, RInv, IInv, TypeOK, ServerTypeOK
    <3>5. QED
      BY <3>2, <3>4 DEF Training
  <2>2. CASE ~ Accept
    <3>1. UNCHANGED <<fd, who, state, gradient_received>>
      BY <2>2 DEF Select, AcceptTableFull, AcceptFails, NothingToAccept, ReadSkip, ReadIncomplete,
           ReadLoopEnds, TrainStart, BroadcastSkip, KeepWaiting, DoneSend, DoneSkip, DoneEnds,
           Shutdown, CloseAll
    <3>2. QED
      BY <3>1 DEF Training, Active, Occupied
  <2>3. QED
    BY <2>1, <2>2
<1>4. QED
  BY <1>1, <1>2, <1>3, SameMembers, TrainedKept, SyncStutters

\* The first broadcast of a round ends: collecting begins.  The server gives up.
LEMMA PhaseSteps ==
  ASSUME MInv, MInv', UNCHANGED workerVars,
         SelectFails \/ BroadcastEnds \/ Abandon \/ ServerCrash
  PROVE  Sync!Collect \/ Sync!Stop \/ UNCHANGED Sync!syncVars
<1> USE DEF slotVars, trainVars, GoTo, MInv
<1>1. UNCHANGED <<current_round, global_weights, fd, who, state, gradient_received>>
  BY DEF SelectFails, BroadcastEnds, Abandon, ServerCrash, CloseAll
<1>2. Training' = Training
  BY <1>1 DEF Training, Active, Occupied
<1>3. SyncMembers' = SyncMembers /\ Givers' = Givers /\ SyncTrained' = SyncTrained
  BY <1>1, <1>2, SameMembers, TrainedKept
<1>4. SyncGiven' = SyncGiven
  BY <1>1, <1>3, GivenModel, GivenModelNext DEF GivenIsModel
<1>5. \/ SyncPhase = "enrolling" /\ SyncPhase' = "collecting"
      \/ SyncPhase # "over" /\ SyncPhase' = "over"
      \/ SyncPhase' = SyncPhase
  BY DEF SelectFails, BroadcastEnds, Abandon, ServerCrash, SyncPhase, RInv, RoundsOK, PhaseOK
<1>6. QED
  BY <1>1, <1>3, <1>4, <1>5 DEF Sync!Collect, Sync!Stop, Sync!syncVars

\* While the server runs, a worker is behind one slot at most.
LEMMA OneSlotEach ==
  ASSUME MInv, pc # "exited", NEW i \in Active
  PROVE  who[i] \in Workers /\ \A j \in Active \ {i} : who[j] # who[i]
  BY DEF MInv, RInv, IInv, Consistent, SelectCoversSlots

\* A slot is cleared: a member leaves, or a worker that was none.
LEMMA ClearsSlot ==
  ASSUME MInv, MInv', UNCHANGED workerVars,
         pc \in {"read", "bcast"}, outcome = "running",
         UNCHANGED <<pc, current_round, global_weights, weights_broadcast, outcome>>,
         NEW i \in Active, handle_disconnect(i)
  PROVE  Sync!Leave(who[i]) \/ UNCHANGED Sync!syncVars
<1> DEFINE w == who[i]
<1>1. SyncPhase' = SyncPhase /\ SyncPhase \in {"enrolling", "collecting"}
  BY DEF SyncPhase
<1>2. /\ Active' = Active \ {i} /\ i \in Slots
      /\ \A j \in Active' : who'[j] = who[j] /\ state'[j] = state[j]
  BY DEF handle_disconnect, Active, Occupied, MInv, RInv, IInv, TypeOK, ServerTypeOK
<1>3. \A j \in Active' : gradient_received'[j] <=> gradient_received[j]
  <2>1. gradient_received' = [gradient_received EXCEPT ![i] = FALSE]
    BY DEF handle_disconnect
  <2>2. QED
    BY <1>2, <2>1, Zenon DEF Active, MInv, RInv, IInv, TypeOK, ServerTypeOK
<1>4. Training' = Training \ {i} /\ Contributors' = Contributors \ {i}
  BY <1>2, <1>3 DEF Training, Contributors
<1>5. CASE i \notin Training
  BY <1>1, <1>2, <1>3, <1>4, <1>5, SameMembers, TrainedKept, SyncStutters DEF Training
<1>6. CASE i \in Training
  <2>1. \A j \in Training : j \in Active /\ (who[j] = w => j = i)
    BY OneSlotEach DEF Training
  <2>2. w \in SyncMembers /\ SyncMembers' = SyncMembers \ {w}
    BY <1>2, <1>4, <1>6, <2>1 DEF SyncMembers, Training
  <2>3. Givers' = Givers \cap SyncMembers'
    BY <1>2, <1>4, <1>6, <2>1 DEF Givers, SyncMembers, Contributors, Training
  <2>4. SyncGiven' = [v \in Givers \cap SyncMembers' |-> global_weights]
    BY <2>3, GivenModelNext DEF GivenIsModel
  <2>5. SyncGiven' = Sync!Within(SyncGiven, SyncMembers')
    BY <2>4, GivenModel DEF GivenIsModel, Sync!Within
  <2>6. QED
    BY <1>1, <2>2, <2>5, TrainedKept DEF Sync!Leave
<1>7. QED
  BY <1>5, <1>6

\* A participant leaves: a worker in its round closed its connection, or the
\* server could not send it the weights.
LEMMA LeavingSteps ==
  ASSUME MInv, MInv', UNCHANGED workerVars, ReadDisconnect \/ BroadcastFails
  PROVE  Sync!Leave(who[cursor]) \/ UNCHANGED Sync!syncVars
<1> USE DEF NextSlot, trainVars
<1>1. PICK i : i = cursor
  OBVIOUS
<1>2. i \in Active /\ pc \in {"read", "bcast"} /\ handle_disconnect(i)
  BY <1>1 DEF ReadDisconnect, ReadingSlot, BroadcastFails, Registered
<1>3. /\ UNCHANGED <<pc, current_round, global_weights, weights_broadcast, outcome>>
      /\ outcome = "running"
  BY <1>2 DEF ReadDisconnect, BroadcastFails, MInv, RInv, RoundsOK, PhaseOK
<1>4. QED
  BY <1>1, <1>2, <1>3, ClearsSlot

\* A registration does not make a member yet.
LEMMA RegisterHidden ==
  ASSUME MInv, MInv', UNCHANGED workerVars, DispatchRegister
  PROVE  Sync!Leave(who[cursor]) \/ UNCHANGED Sync!syncVars
<1> USE DEF NextSlot, MInv
<1>1. PICK i : i = cursor
  OBVIOUS
<1>2. handle_register(i, RegisterMsg(who[i])) /\ state[i] = 0
  BY <1>1, RegisterFacts
<1>3. /\ i \in Active /\ i \in Slots /\ pc = "read" /\ outcome = "running"
      /\ UNCHANGED <<pc, current_round, weights_broadcast, outcome>>
  BY <1>1, ReadingFacts DEF DispatchRegister
<1>4. global_weights' = global_weights
  BY <1>2 DEF handle_register, ShapesOK, LearningOK
<1>5. CASE handle_disconnect(i)
  BY <1>1, <1>3, <1>4, <1>5, ClearsSlot
<1>6. CASE /\ state' = [state EXCEPT ![i] = 1]
           /\ UNCHANGED <<fd, who, gradient_received>>
  <2>1. Training' = Training
    BY <1>2, <1>3, <1>6 DEF Training, Active, Occupied, RInv, IInv, TypeOK, ServerTypeOK
  <2>2. SyncPhase' = SyncPhase
    BY <1>3 DEF SyncPhase
  <2>3. QED
    BY <1>3, <1>4, <1>6, <2>1, <2>2, SameMembers, TrainedKept, SyncStutters
<1>7. QED
  BY <1>2, <1>5, <1>6 DEF handle_register

\* A gradient: the member gives it, for the first time in this round.
LEMMA Gives ==
  ASSUME MInv, MInv', UNCHANGED workerVars, DispatchGradient
  PROVE  \E w \in Workers : Sync!Give(w)
<1> USE DEF NextSlot, trainVars, MInv
<1>1. PICK i : i = cursor
  OBVIOUS
<1> DEFINE w == who[i]
<1>2. state[i] = 2 /\ ~ gradient_received[i] /\ gradient_received'[i]
  BY <1>1, GradientFacts
<1>3. \A j \in Slots \ {i} : gradient_received'[j] = gradient_received[j]
  BY <1>1, GradientFacts
<1>4. /\ i \in Active /\ i \in Slots /\ w \in Workers /\ pc = "read" /\ outcome = "running"
      /\ UNCHANGED <<fd, who, state, pc, current_round, global_weights, weights_broadcast, outcome>>
  BY <1>1, ReadingFacts DEF DispatchGradient
<1>5. i \in Training /\ Training' = Training /\ Training \subseteq Active /\ Training \subseteq Slots
  BY <1>2, <1>4 DEF Training, Active, Occupied
<1>6. SyncPhase = "collecting" /\ SyncPhase' = SyncPhase
  BY <1>4, <1>5 DEF SyncPhase, RInv, RoundsOK, PhaseOK
<1>7. Contributors' = Contributors \cup {i} /\ i \notin Contributors
  BY <1>2, <1>3, <1>5 DEF Contributors
<1>8. w \in SyncMembers /\ SyncMembers' = SyncMembers
  BY <1>4, <1>5 DEF SyncMembers
<1>9. w \notin Givers /\ Givers' = Givers \cup {w}
  <2>1. \A j \in Contributors : who[j] # w
    BY <1>4, <1>5, <1>7, OneSlotEach DEF Contributors
  <2>2. QED
    BY <1>4, <1>7, <2>1 DEF Givers
<1>10. SyncGiven' = [v \in Givers \cup {w} |-> global_weights]
  BY <1>4, <1>9, GivenModelNext DEF GivenIsModel
<1>11. SyncGiven' = Sync!With(SyncGiven, w, global_weights)
  BY <1>10, GivenModel DEF GivenIsModel, Sync!With
<1>12. DOMAIN SyncGiven = Givers
  BY GivenModel DEF GivenIsModel
<1>13. Sync!Give(w)
  BY <1>4, <1>6, <1>8, <1>9, <1>11, <1>12, TrainedKept DEF Sync!Give
<1>14. QED
  BY <1>4, <1>13

\* Weights are sent to a member again, or make a registered worker a member.
LEMMA Enrols ==
  ASSUME MInv, MInv', UNCHANGED workerVars, BroadcastSend
  PROVE  (\E w \in Workers : Sync!Enrol(w)) \/ UNCHANGED Sync!syncVars
<1> USE DEF NextSlot, trainVars, MInv
<1>1. PICK i : i = cursor
  OBVIOUS
<1> DEFINE w == who[i]
<1>2. /\ i \in Active /\ i \in Slots /\ w \in Workers
      /\ state[i] \in 1 .. 2 /\ ~ gradient_received[i]
  BY <1>1, BroadcastFacts
<1>3. /\ pc = "bcast" /\ outcome = "running"
      /\ UNCHANGED <<fd, who, pc, current_round, global_weights, weights_broadcast, outcome>>
      /\ state' = [state EXCEPT ![i] = 2]
      /\ gradient_received' = [gradient_received EXCEPT ![i] = FALSE]
  BY <1>1 DEF BroadcastSend, RInv, RoundsOK, PhaseOK
<1>4. SyncPhase = "enrolling" /\ SyncPhase' = SyncPhase
  BY <1>3 DEF SyncPhase
<1>5. \A j \in Slots : gradient_received'[j] <=> gradient_received[j]
  BY <1>2, <1>3, Zenon DEF RInv, IInv, TypeOK, ServerTypeOK
<1>6. Training' = Training \cup {i} /\ Training \subseteq Slots
  BY <1>2, <1>3 DEF Training, Active, Occupied, RInv, IInv, TypeOK, ServerTypeOK
<1>7. Contributors' = Contributors
  BY <1>2, <1>5, <1>6 DEF Contributors
<1>8. Givers' = Givers /\ SyncMembers' = SyncMembers \cup {w}
  BY <1>3, <1>6, <1>7 DEF Givers, SyncMembers
<1>9. CASE i \in Training
  BY <1>3, <1>4, <1>6, <1>8, <1>9, TrainedKept, SyncStutters DEF SyncMembers
<1>10. CASE i \notin Training
  <2>1. w \notin SyncMembers
    BY <1>2, <1>3, <1>10, OneSlotEach DEF SyncMembers, Training
  <2>2. SyncGiven' = SyncGiven
    BY <1>3, <1>8, GivenModel, GivenModelNext DEF GivenIsModel
  <2>3. Sync!Enrol(w)
    BY <1>3, <1>4, <1>8, <2>1, <2>2, TrainedKept DEF Sync!Enrol
  <2>4. QED
    BY <1>2, <2>3
<1>11. QED
  BY <1>9, <1>10

\* The update ends the round: with one update if it has a member left.
LEMMA Ends ==
  ASSUME MInv, MInv', UNCHANGED workerVars, Aggregate
  PROVE  Sync!EndRound
<1> USE DEF GoTo, MInv
<1>1. /\ pc = "check" /\ outcome = "running" /\ weights_broadcast
      /\ \A i \in Training : gradient_received[i]
      /\ current_round \in Nat /\ global_weights \in Nat
  BY DEF Aggregate, all_gradients_received, RInv, RoundsOK, PhaseOK, IInv, TypeOK, ServerTypeOK
<1>2. /\ UNCHANGED <<fd, who, state, weights_broadcast>>
      /\ gradient_received' = [i \in Slots |-> gradient_received[i] /\ i \notin Training]
  BY DEF Aggregate, aggregate_and_update
<1>3. Training' = Training /\ Training \subseteq Slots /\ Training \subseteq Registered
  BY <1>2 DEF Training, Active, Occupied, Registered
<1>4. Contributors = Training /\ Contributors' = {}
  <2>1. \A i \in Training : ~ gradient_received'[i]
    BY <1>2, <1>3, Zenon
  <2>2. QED
    BY <1>1, <1>3, <2>1 DEF Contributors
<1>5. SyncMembers' = SyncMembers /\ Givers = SyncMembers /\ Givers' = {}
  BY <1>2, <1>3, <1>4 DEF SyncMembers, Givers
<1>6. DOMAIN SyncGiven = SyncMembers /\ SyncGiven' = <<>>
  BY <1>5, GivenModel, GivenModelNext DEF GivenIsModel
<1>7. SyncMembers # {} <=> \E i \in Contributors : num_samples[i] > 0
  BY <1>3, <1>4 DEF SyncMembers, ShapesOK, SamplesOK
<1>8. SyncPhase = "collecting"
  BY <1>1 DEF SyncPhase
<1>9. PICK below \in BOOLEAN :
        /\ aggregate_and_update(below)
        /\ \/ outcome' = "complete" /\ UNCHANGED current_round
           \/ /\ ~ below /\ current_round < MaxRounds
              /\ current_round' = current_round + 1 /\ pc' = "bcast" /\ outcome' = outcome
  BY <1>1, ConstantFacts DEF Aggregate, check_termination
<1>10. /\ SyncMembers # {} => global_weights' = global_weights + 1
       /\ SyncMembers = {} => global_weights' = global_weights /\ below
  BY <1>1, <1>7, <1>9 DEF aggregate_and_update
<1>11. \/ SyncPhase' = "over" /\ UNCHANGED current_round
       \/ /\ ~ below /\ current_round < MaxRounds
          /\ current_round' = current_round + 1 /\ SyncPhase' = "enrolling"
  BY <1>1, <1>9 DEF SyncPhase
<1>12. QED
  BY <1>5, <1>6, <1>8, <1>10, <1>11, TrainedKept DEF Sync!EndRound

\* Every step of the server is a step of synchronous training or none.
LEMMA ServerImplements ==
  ASSUME MInv, MInv', UNCHANGED workerVars, ServerNext \/ ServerCrash
  PROVE  Sync!Next \/ UNCHANGED Sync!syncVars
<1>1. ASSUME ReadDisconnect \/ BroadcastFails \/ DispatchRegister PROVE who[cursor] \in Workers
  BY <1>1, SlotWorkers
     DEF MInv, ReadDisconnect, BroadcastFails, DispatchRegister, ReadingSlot, Registered
<1>2. CASE ReadDisconnect \/ BroadcastFails \/ DispatchRegister
  BY <1>1, <1>2, LeavingSteps, RegisterHidden DEF Sync!Next
<1>3. CASE DispatchGradient \/ BroadcastSend \/ Aggregate
  BY <1>3, Gives, Enrols, Ends DEF Sync!Next
<1>4. CASE SelectFails \/ BroadcastEnds \/ Abandon \/ ServerCrash
  BY <1>4, PhaseSteps DEF Sync!Next
<1>5. QED
  BY <1>2, <1>3, <1>4, HiddenSteps DEF ServerNext

-----------------------------------------------------------------------------
(* The steps of a worker.                                                  *)

\* Only the end of a worker's receive loop on MSG_DONE is visible: it learns the
\* final model.
LEMMA WorkerImplements ==
  ASSUME MInv, MInv', NEW w \in Workers, Start(w) \/ WorkerStep(w) \/ Crash(w), UNCHANGED serverVars
  PROVE  Sync!Learn(w) \/ UNCHANGED Sync!syncVars
<1> USE DEF serverVars, slotVars, trainVars, MInv
<1>1. SyncPhase' = SyncPhase
  BY DEF SyncPhase
<1>2. Training' = Training
  BY DEF Training, Active, Occupied
<1>3. SyncMembers' = SyncMembers /\ Givers' = Givers
  BY <1>2, SameMembers
<1>4. SyncGiven' = SyncGiven
  BY <1>3, GivenModel, GivenModelNext DEF GivenIsModel
<1>5. wpc[w] # "done"
  BY DEF Start, Connect, ConnectRefused, WorkerStep, SendRegister, ReceiveWeights, SendGradient,
         WriteRefused, ReceiveDone, ReadEof, Crash, Connected
<1>6. \A v \in Workers \ {w} : wpc'[v] = wpc[v] /\ wmodel'[v] = wmodel[v]
  BY Elsewhere
<1>7. CASE wpc'[w] = "done"
  <2>1. outcome # "running" /\ wmodel'[w] = global_weights
    BY <1>7 DEF RInv, RoundsOK, LinksOK, LinkOK
  <2>2. Finished' = Finished \cup {w} /\ w \notin Finished
    BY <1>5, <1>6, <1>7 DEF Finished
  <2>3. SyncTrained = [v \in Finished |-> wmodel[v]] /\ SyncTrained' = [v \in Finished \cup {w} |-> wmodel'[v]]
    BY <2>2 DEF SyncTrained, Finished
  <2>4. SyncTrained' = Sync!With(SyncTrained, w, global_weights)
    BY <1>6, <2>1, <2>2, <2>3 DEF Sync!With, Finished
  <2>5. w \notin DOMAIN SyncTrained /\ SyncPhase = "over"
    BY <2>1, <2>2, <2>3 DEF SyncPhase
  <2>6. QED
    BY <1>1, <1>3, <1>4, <2>4, <2>5 DEF Sync!Learn
<1>8. CASE wpc'[w] # "done"
  <2>1. Finished' = Finished /\ w \notin Finished
    BY <1>5, <1>6, <1>8 DEF Finished
  <2>2. SyncTrained' = SyncTrained
    BY <1>6, <2>1 DEF SyncTrained, Finished
  <2>3. QED
    BY <1>1, <1>3, <2>2, SyncStutters
<1>9. QED
  BY <1>7, <1>8

-----------------------------------------------------------------------------
(* The refinement.                                                         *)

\* Nobody takes part, has given or has finished.
LEMMA InitImplements == Init => Sync!Init
<1> SUFFICES ASSUME Init PROVE Sync!Init
  OBVIOUS
<1> USE DEF Init, NetInit, ServerInit, WorkerInit
<1>1. Active = {} /\ Training = {} /\ Contributors = {}
  BY DEF Active, Occupied, Training, Contributors
<1>2. SyncMembers = {} /\ Givers = {}
  BY <1>1 DEF SyncMembers, Givers
<1>3. SyncGiven = <<>>
  BY <1>2, InitMInv, GivenModel DEF GivenIsModel
<1>4. SyncTrained = <<>>
  <2>1. {v \in Workers : wpc[v] = "done"} = {}
    OBVIOUS
  <2>2. QED
    BY <2>1 DEF SyncTrained
<1>5. SyncPhase = "enrolling"
  BY DEF SyncPhase
<1>6. QED
  BY <1>2, <1>3, <1>4, <1>5 DEF Sync!Init

\* Whatever workers, connections and crashes do, the program trains synchronously:
\* a round takes one gradient of every member that stays, taken at the model it is
\* applied to, and makes one update; whoever ends with a model has the final one.
THEOREM TrainsSynchronously ==
  ASSUME LearnableShapes
  PROVE  Spec => ImplementsSync
<1>1. Init => Sync!Init
  BY InitImplements
<1>2. MInv /\ MInv' /\ [Next]_vars => [Sync!Next]_(Sync!syncVars)
  <2> SUFFICES ASSUME MInv, MInv', [Next]_vars
               PROVE  Sync!Next \/ UNCHANGED Sync!syncVars
    OBVIOUS
  <2>1. CASE (ServerNext \/ ServerCrash) /\ UNCHANGED workerVars
    BY <2>1, ServerImplements
  <2>2. ASSUME NEW w \in Workers, Start(w) \/ WorkerStep(w) \/ Crash(w), UNCHANGED serverVars
        PROVE  Sync!Next \/ UNCHANGED Sync!syncVars
    BY <2>2, WorkerImplements DEF Sync!Next
  <2>3. CASE UNCHANGED vars
    <3>1. SyncPhase' = SyncPhase /\ Training' = Training /\ SyncTrained' = SyncTrained
      BY <2>3, TrainedKept
         DEF vars, serverVars, slotVars, trainVars, SyncPhase, Training, Active, Occupied
    <3>2. SyncMembers' = SyncMembers /\ Givers' = Givers
      BY <2>3, <3>1, SameMembers DEF vars, serverVars, slotVars
    <3>3. QED
      BY <2>3, <3>1, <3>2, SyncStutters DEF vars, serverVars, trainVars
  <2>4. QED
    BY <2>1, <2>2, <2>3 DEF Next
<1>3. QED
  BY <1>1, <1>2, ModelInvariance, PTL DEF Spec, ImplementsSync, Sync!Spec
=============================================================================
