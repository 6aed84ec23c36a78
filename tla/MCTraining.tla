----------------------------- MODULE MCTraining -----------------------------
(***************************************************************************)
(* Instances of Training for TLC.                                          *)
(***************************************************************************)
EXTENDS Refinement, TLC

CONSTANTS w1, w2, w3

\* Shapes of the shards, with MAX_FEATURES = 3: all equal; one too large and
\* two that differ; one with exactly MAX_FEATURES features.
UniformFeatures == [w \in Workers |-> 2]
MixedFeatures == [w \in Workers |-> CASE w = w1 -> 4 [] w = w2 -> 2 [] w = w3 -> 1]
SentinelFeatures == [w \in Workers |-> IF w = w1 THEN 3 ELSE 2]

AnyOrder == Permutations({w1, w2, w3})

OneSample == [w \in Workers |-> 1]
=============================================================================
