------------------------------ MODULE Training ------------------------------
(***************************************************************************)
(* The whole system: one server, the workers and their connections, and    *)
(* the properties that make a training run correct.                        *)
(***************************************************************************)
EXTENDS Server, Worker

vars == <<netVars, serverVars, workerVars>>

Init == NetInit /\ ServerInit /\ WorkerInit

\* The server listens from before its first step until it exits.
Start(w) ==
  \/ pc # "exited" /\ Connect(w)
  \/ pc = "exited" /\ ConnectRefused(w)

Next ==
  \/ (ServerNext \/ ServerCrash) /\ UNCHANGED workerVars
  \/ \E w \in Workers : (Start(w) \/ WorkerStep(w) \/ Crash(w)) /\ UNCHANGED serverVars

Spec == Init /\ [][Next]_vars

\* Both programs keep running: no step waits on anything but its guard.
\* Nobody has to start a worker, and nothing has to crash.
FairSpec ==
  /\ Spec
  /\ WF_vars(ServerNext /\ UNCHANGED workerVars)
  /\ \A w \in Workers : WF_vars(WorkerStep(w) /\ UNCHANGED serverVars)

\* Only the server is known to keep running: a worker may be silent for ever.
ServerFairSpec == Spec /\ WF_vars(ServerNext /\ UNCHANGED workerVars)

-----------------------------------------------------------------------------
(* Type and structural invariants.                                         *)

\* Every variable stays in its range: current_round within MAX_ROUNDS, which
\* check_termination enforces, descriptors and loop indices within the table.
TypeOK == NetTypeOK /\ ServerTypeOK /\ WorkerTypeOK

\* The worker table agrees with the kernel and with select()'s bookkeeping:
\* no two slots share a descriptor or a connection, no slot holds a closed
\* connection, and select() watches every slot (allset, maxfd).
SelectCoversSlots ==
  pc # "exited" =>
    /\ \A i \in Active :
         /\ fd[i] \in allset /\ fd[i] <= maxfd
         /\ who[i] \in Workers /\ ~ hungup[who[i]] /\ peer[who[i]] # "none"
         /\ \A j \in Active \ {i} : fd[i] # fd[j] /\ who[i] # who[j]
    /\ \A n \in DOMAIN backlog :
         /\ ~ hungup[backlog[n]]
         /\ \A i \in Active : backlog[n] # who[i]

\* accept() and accumulate_read are only called when they cannot block, although
\* other handlers ran since select() returned: "It never blocks on one worker".
ReadNeverBlocks ==
  /\ pc = "accept" /\ ListenFd \in rset => backlog # <<>>
  /\ pc \in {"accept", "read"} =>
       \A i \in Active : i >= cursor /\ fd[i] \in rset => Readable(who[i])

\* A worker has at most one message on its way in each direction: the receive
\* buffer never needs to hold two, and write_all never fills a socket buffer.
OneMessageInFlight ==
  \A w \in Workers : Len(up[w]) <= 1 /\ Len(down[w]) <= 1

-----------------------------------------------------------------------------
(* The synchronous rounds.                                                 *)

\* The broadcast of the current round (or of DONE) has yet to reach slot i.
AwaitsBroadcast(i) == pc \in {"bcast", "done"} /\ i >= cursor

\* Where the one unit of work of a training slot can be.
WeightsOnTheWay(i) ==
  \E n \in DOMAIN down[who[i]] :
    LET m == down[who[i]][n] IN m.type = "weights" /\ m.round = current_round
Computing(i) == wpc[who[i]] = "computing" /\ wround[who[i]] = current_round
GradientOnTheWay(i) ==
  \E n \in DOMAIN up[who[i]] :
    LET m == up[who[i]][n] IN m.type = "gradient" /\ m.round = current_round

Work(i) ==
  {p \in 1 .. 4 : \/ p = 1 /\ WeightsOnTheWay(i)
                  \/ p = 2 /\ Computing(i)
                  \/ p = 3 /\ GradientOnTheWay(i)
                  \/ p = 4 /\ gradient_received[i]}

\* Server and workers move in lockstep: between two broadcasts each training
\* slot has its work for the current round in exactly one place, or its worker
\* died; while a broadcast is still to reach a slot nothing is left over.
RoundLockstep ==
  pc \notin {"shutdown", "exited"} =>
    \A i \in Training :
      IF AwaitsBroadcast(i) THEN Work(i) = {}
      ELSE pc # "done" =>
             /\ Cardinality(Work(i)) <= 1
             /\ wpc[who[i]] \in Connected => Work(i) # {}

\* Whenever a gradient is about to be dispatched it is the first of its slot
\* for the current round: the stale-round branch of handle_gradient is dead.
NoStaleGradient ==
  \A i \in Active :
    up[who[i]] # <<>> /\ Head(up[who[i]]).type = "gradient"
      => /\ state[i] = 2
         /\ Head(up[who[i]]).round = current_round
         /\ ~ gradient_received[i]

\* A gradient that waits to be averaged was computed from the weights it will
\* be applied to, and has as many components as the model has weights, although
\* handle_gradient compares neither.
GradientsFitModel ==
  \A i \in Training :
    gradient_received[i] => /\ gradients[i] = global_weights
                            /\ Features[who[i]] = num_features

\* Every registered slot has the number of features the server trains with.
FeatureAgreement ==
  \A i \in Registered : Features[who[i]] = num_features

\* No worker computes on an array of weights it received only in part.
WeightsComplete ==
  \A w \in Workers : wpc[w] = "computing" => wmodel[w] # Mixed

\* A worker computes, and reads a MSG_DONE, only with as many features as its
\* arrays of MAX_FEATURES floats hold, although nothing in it checks that.
WorkerBuffersSuffice ==
  \A w \in Workers : wpc[w] \in {"computing", "done"} => Features[w] <= MaxFeatures

\* The model has had one update per finished round.  The update that ends
\* training is not counted by current_round; the server may be killed after it.
ModelFollowsRounds ==
  /\ outcome \notin {"complete", "killed"} => global_weights = current_round
  /\ global_weights \in {current_round, current_round + 1}

\* Once training runs, the server never waits in select() without a reason:
\* a descriptor is ready (or bad), or a live participant owes a gradient.
BarrierNotStuck ==
  pc = "select" /\ weights_broadcast =>
    \/ Ready # {} \/ BadFds # {}
    \/ \E i \in Training : ~ gradient_received[i] /\ wpc[who[i]] \in Connected

\* Every worker that finished holds the server's final model.
FinalModelAgreement ==
  \A w \in Workers : wpc[w] = "done" => outcome # "running" /\ wmodel[w] = global_weights

-----------------------------------------------------------------------------
(* What a step may never do.                                               *)

\* A participant leaves the table only after its process or connection died.
\* The connection of a live one is closed only by the end of main, which is the
\* end of training, a failure of select() or a kill: never because "every worker
\* has disconnected".
OnlyDeadParticipantsDropped ==
  [][\A i \in Training :
       wpc[who[i]] \in Connected =>
         /\ fd'[i] # NoFd
         /\ hungup'[who[i]] =>
              pc' = "exited" /\ outcome' \in {"complete", "select_failed", "killed"}]_vars

\* When a round ends, and when training ends, no live worker still works on it,
\* whatever slot it is in and whatever became of its connection: its weights and
\* its gradient are not on the way, and it is not computing.
NoWorkLeftBehind ==
  [][current_round' # current_round \/ (outcome' = "complete" /\ outcome = "running")
       => \A w \in Workers :
            wpc[w] \in Connected =>
              /\ wpc[w] # "computing"
              /\ down[w] = <<>>
              /\ \A n \in DOMAIN up[w] : up[w][n].type # "gradient"]_vars

\* Descriptors in select()'s set that no slot has.
Forgotten == allset \ (OpenFds \cup {ListenFd})

\* FD_SET and FD_CLR follow the table except on two paths, the broadcast to a
\* worker that died and the registration with another feature count: nothing
\* else leaves a closed descriptor in the set, and one that was closed before it
\* got a slot never enters it.
OnlyDroppedFdsForgotten ==
  [][\A f \in Forgotten' \ Forgotten :
       \E i \in Active :
         /\ fd[i] = f
         /\ \/ pc = "bcast" /\ wpc[who[i]] = "dead"
            \/ pc = "read" /\ up[who[i]] # <<>> /\ Features[who[i]] # num_features]_vars

\* The server aggregates only when it has a gradient: "the server will not
\* aggregate" an empty set.
AggregationHasContributors ==
  [][current_round' # current_round \/ (outcome' = "complete" /\ outcome = "running")
       => Contributors # {}]_vars

-----------------------------------------------------------------------------
(* Faults stay local, and training ends.                                   *)

\* The server leaves its loop because training is over, never because
\* select() failed.
NoFatalDisconnect == outcome # "select_failed"

\* Once training has begun the server exits and no worker stays behind.
TrainingEnds ==
  weights_broadcast ~>
    (pc = "exited" /\ \A w \in Workers : wpc[w] \notin Connected)

\* A worker that takes part in the last round receives MSG_DONE or dies.
ParticipantsFinish ==
  \A w \in Workers :
    (pc = "done" /\ \E i \in Training : who[i] = w) ~>
      (wpc[w] \in {"done", "dead"} \/ outcome = "killed")

\* "A slow worker does not block service to others": whatever other workers do
\* or fail to do, a pending connection is accepted, refused or dropped, and
\* what a worker sent is read or its connection is closed.
EveryWorkerServed ==
  \A w \in Workers :
    (up[w] # <<>> \/ Pending(w)) ~>
      (up[w] = <<>> /\ ~ Pending(w)) \/ hungup[w] \/ peer[w] = "rst" \/ pc = "exited"

\* As long as enough connected workers have registered, or have sent their
\* registration, the server does not fail to start training: neither the silent
\* ones, nor more of them than expected, keep it from it.
Applicants == {i \in Active : i \in Registered \/ up[who[i]] # <<>>}

TrainingStarts ==
  []<>(weights_broadcast \/ Cardinality(Applicants) < ExpectedWorkers \/ pc = "exited")
=============================================================================
