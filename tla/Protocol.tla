------------------------------ MODULE Protocol ------------------------------
(***************************************************************************)
(* The constants and the four messages of the training protocol            *)
(* (protocol.h).  A vector of floats is abstracted to the model it belongs *)
(* to: the number of updates applied since init_weights, or Mixed when     *)
(* part of the vector was never received.                                  *)
(***************************************************************************)
EXTENDS Integers, Sequences, FiniteSets

CONSTANTS
  Workers,          \* worker processes; each opens one connection in its life
  NoWorker,         \* the connection behind an empty slot
  MaxWorkers,       \* MAX_WORKERS, slots in the server's table
  MaxFeatures,      \* MAX_FEATURES, also "no feature count learned yet"
  MaxRounds,        \* MAX_ROUNDS
  ExpectedWorkers,  \* argv[1] of the server, clamped to at least 1
  Features,         \* feature count of each worker's shard
  Samples,          \* sample count of each worker's shard
  Mortal,           \* workers whose process or connection may die early
  ServerMayDie      \* may the server process be killed?

\* load_data refuses a shard without features or without samples; nothing
\* bounds the feature count of a shard by MAX_FEATURES.
ASSUME ConstantsAssumption ==
  /\ IsFiniteSet(Workers)
  /\ NoWorker \notin Workers
  /\ MaxWorkers \in Nat \ {0}
  /\ MaxFeatures \in Nat \ {0}
  /\ MaxRounds \in Nat
  /\ ExpectedWorkers \in Nat \ {0}
  /\ Features \in [Workers -> Nat \ {0}]
  /\ Samples \in [Workers -> Nat \ {0}]
  /\ Mortal \subseteq Workers
  /\ ServerMayDie \in BOOLEAN

Slots == 0 .. MaxWorkers - 1

ListenFd == 3

\* File descriptors accept() can return: one for each slot and one more for
\* the connection that is accepted and closed at once when no slot is free.
Fds == ListenFd + 1 .. ListenFd + MaxWorkers + 1

NoFd == -1

\* A weight vector of which the worker received only a prefix.
Mixed == -1
Models == Nat \cup {Mixed}

RegisterMsg(w) ==
  [type |-> "register", nf |-> Features[w], ns |-> Samples[w]]
GradientMsg(w, r, m) ==
  [type |-> "gradient", round |-> r, nf |-> Features[w], model |-> m]
WeightsMsg(r, n, m) == [type |-> "weights", round |-> r, nf |-> n, model |-> m]
DoneMsg(n, m) == [type |-> "done", nf |-> n, model |-> m]

\* What is left in the stream of a message whose sender died halfway.
Fragment == [type |-> "fragment"]

UpMsgs ==
  [type : {"register"}, nf : Nat, ns : Nat]
    \cup [type : {"gradient"}, round : Nat, nf : Nat, model : Models]
    \cup {Fragment}

DownMsgs ==
  [type : {"weights"}, round : Nat, nf : Nat, model : Nat]
    \cup [type : {"done"}, nf : Nat, model : Nat]
=============================================================================
