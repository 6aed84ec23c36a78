-------------------------- MODULE ModelArithmetic --------------------------
(***************************************************************************)
(* The arithmetic of a round: the gradient each worker computes on its     *)
(* shard (model.c) and the average the server applies (aggregate_and_      *)
(* update).  A float is an integer number of fractions 1 / Unit, chosen so *)
(* that every worker's division is exact: rounding is left out.  The       *)
(* sigmoid is a step function of three values, the logarithm a table.      *)
(***************************************************************************)
EXTENDS Integers, Sequences, FiniteSets, Functions

CONSTANTS
  Workers,
  Shards,        \* the shards a worker may have: sequences of [x, y]
  NumFeatures,
  Unit,
  LearningRate,
  IntMax,        \* the largest int
  MaxUpdates     \* bound on the rounds

\* load_data returns no empty shard, labels are 0 or 1, and every shard's number of
\* samples divides the values that occur.
ASSUME ArithmeticAssumption ==
  /\ IsFiniteSet(Workers)
  /\ {NumFeatures, Unit, IntMax} \subseteq Nat /\ LearningRate \in Int
  /\ Unit % 4 = 0
  /\ \A samples \in Shards :
       /\ samples \in Seq([x : [1 .. NumFeatures -> Int], y : {0, 1}])
       /\ samples # <<>> /\ (Unit \div 4) % Len(samples) = 0

VARIABLES
  shard,         \* worker -> its samples
  weights,       \* of the server, sent to every worker
  global_loss,
  contributors,  \* whose gradients were averaged last
  updates

vars == <<shard, weights, global_loss, contributors, updates>>

Indices == 1 .. NumFeatures

init_weights == [j \in Indices |-> 0]

Init ==
  /\ shard \in [Workers -> Shards]
  /\ weights = init_weights
  /\ global_loss = 0
  /\ contributors = {}
  /\ updates = 0

-----------------------------------------------------------------------------
(* The worker.                                                             *)

sigmoid(x) == (IF x < 0 THEN 1 ELSE IF x = 0 THEN 2 ELSE 3) * (Unit \div 4)

Pred(sample) == sigmoid(SumFunction([j \in Indices |-> weights[j] * sample.x[j]]))

Error(sample) == Pred(sample) - sample.y * Unit

\* - log(p) grows as p falls.
LogLoss(sample) ==
  LET p == IF sample.y = 1 THEN Pred(sample) ELSE Unit - Pred(sample)
  IN  Unit - p

compute_gradient(samples) ==
  [grad |-> [j \in Indices |->
     SumFunction([i \in DOMAIN samples |-> Error(samples[i]) * samples[i].x[j]])
       \div Len(samples)],
   loss |-> SumFunction([i \in DOMAIN samples |-> LogLoss(samples[i])]) \div Len(samples)]

-----------------------------------------------------------------------------
(* The server.                                                             *)

\* An int that overflows wraps around.
AsInt(n) == ((n + IntMax + 1) % (2 * (IntMax + 1))) - (IntMax + 1)

\* Every contribution counts the same.
Mutant_num_samples(w) == 1
num_samples(w) == Len(shard[w])

update_weights(avg) == [j \in Indices |-> weights[j] - LearningRate * avg[j]]

\* aggregate_and_update: contributions weighted by their number of samples.
aggregate_and_update(C) ==
  LET total_samples == AsInt(SumFunction([w \in C |-> num_samples(w)]))
      Average(f) == SumFunction([w \in C |-> f[w] * num_samples(w)])
                      \div (IF total_samples > 0 THEN total_samples ELSE 1)
  IN  /\ weights' = update_weights([j \in Indices |->
                      Average([w \in C |-> compute_gradient(shard[w]).grad[j]])])
      /\ global_loss' = IF total_samples > 0
                        THEN Average([w \in C |-> compute_gradient(shard[w]).loss])
                        ELSE global_loss

\* One round: any workers may have died or joined since the last one.
Next ==
  /\ updates < MaxUpdates
  /\ updates' = updates + 1
  /\ \E C \in (SUBSET Workers) \ {{}} :
       /\ aggregate_and_update(C)
       /\ contributors' = C
  /\ UNCHANGED shard

Spec == Init /\ [][Next]_vars

-----------------------------------------------------------------------------

\* The gradient and the loss of one machine that has the samples of all of C.
Pooled(C) == UNION {{w} \X (1 .. Len(shard[w])) : w \in C}
Sample(p) == shard[p[1]][p[2]]
Mean(f) == SumFunction(f) \div Cardinality(DOMAIN f)
CentralGradient(C, j) == Mean([p \in Pooled(C) |-> Error(Sample(p)) * Sample(p).x[j]])
CentralLoss(C) == Mean([p \in Pooled(C) |-> LogLoss(Sample(p))])

\* A round is one step of gradient descent on the samples of its contributors,
\* however they are spread: nobody's samples count more, less or twice, and the
\* loss that decides on the end is the loss of that model on those samples.
\* It takes that the number of samples is an int.
RoundsAreCentralised ==
  [][LET C == contributors' IN
       Cardinality(Pooled(C)) <= IntMax =>
         /\ \A j \in Indices :
              weights'[j] = weights[j] - LearningRate * CentralGradient(C, j)
         /\ global_loss' = CentralLoss(C)]_vars
=============================================================================
