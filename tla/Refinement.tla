----------------------------- MODULE Refinement -----------------------------
(***************************************************************************)
(* The server, the workers and their connections implement synchronous     *)
(* training.                                                               *)
(***************************************************************************)
EXTENDS Training

SyncPhase ==
  IF outcome # "running" THEN "over"
  ELSE IF pc = "bcast" \/ ~ weights_broadcast THEN "enrolling" ELSE "collecting"

SyncMembers == {who[i] : i \in Training}

SyncGiven ==
  [w \in {who[i] : i \in Contributors} |->
     gradients[CHOOSE i \in Contributors : who[i] = w]]

SyncTrained == [w \in {v \in Workers : wpc[v] = "done"} |-> wmodel[w]]

Sync == INSTANCE SyncTraining WITH
  phase <- SyncPhase, round <- current_round, model <- global_weights,
  members <- SyncMembers, given <- SyncGiven, trained <- SyncTrained

\* Every step of the program is a step of synchronous training or none: the
\* barrier, the averaging, the late workers, the lost ones and the final
\* broadcast amount to rounds of one gradient per member and one update each.
ImplementsSync == Sync!Spec

\* And it makes the progress that synchronous training promises.
ImplementsFairSync == Sync!FairSpec
=============================================================================
