------------------------------ MODULE GenData ------------------------------
(***************************************************************************)
(* The shard generator (gen_data.c): total_samples rows are spread over    *)
(* num_shards files, one for each worker.  A row is its number of columns; *)
(* what the random numbers are does not matter, except that none prints a  *)
(* comma or nothing.                                                       *)
(***************************************************************************)
EXTENDS CsvLines

CONSTANT MaxArg  \* bound on the arguments

ASSUME MaxArgAssumption == MaxArg \in Nat

VARIABLES
  num_features, total_samples, num_shards,  \* the arguments
  gen_pc, s, i,                             \* where main is: shard and row
  shards                                    \* shard -> rows of its file

args == <<num_features, total_samples, num_shards>>
genVars == <<args, gen_pc, s, i, shards>>

\* atoi may give anything, 0 stands for what is not positive; the check of the
\* arguments is the first step.
GenInit ==
  /\ num_features \in 0 .. MaxArg
  /\ total_samples \in 0 .. MaxArg
  /\ num_shards \in 0 .. MaxArg
  /\ gen_pc = "args"
  /\ s = 0 /\ i = 0
  /\ shards = <<>>

\* Refused, or there is no memory for the weights of the labels.
ArgsFail ==
  /\ gen_pc = "args"
  /\ gen_pc' = "failed"
  /\ UNCHANGED <<args, s, i, shards>>

CheckArgs ==
  /\ gen_pc = "args"
  /\ num_features > 0 /\ total_samples > 0 /\ num_shards > 0
  /\ gen_pc' = "open"
  /\ UNCHANGED <<args, s, i, shards>>

base == total_samples \div num_shards
rem == total_samples % num_shards

\* The remainder goes to the shards from the first on, one row each.
Mutant_count == base + (IF s <= rem THEN 1 ELSE 0)
count == base + (IF s < rem THEN 1 ELSE 0)

OpenShard ==
  /\ gen_pc = "open"
  /\ s < num_shards
  /\ \/ /\ shards' = Append(shards, <<>>)
        /\ i' = 0
        /\ gen_pc' = "write"
     \/ /\ gen_pc' = "failed"
        /\ UNCHANGED <<shards, i>>
  /\ UNCHANGED <<args, s>>

\* The features, a comma between each two of them, and ",label".
Mutant_Columns == num_features
Columns == num_features + 1

WriteRow ==
  /\ gen_pc = "write"
  /\ i < count
  /\ shards' = [shards EXCEPT ![s + 1] = Append(@, Columns)]
  /\ i' = i + 1
  /\ UNCHANGED <<args, gen_pc, s>>

CloseShard ==
  /\ gen_pc = "write"
  /\ i = count
  /\ s' = s + 1
  /\ gen_pc' = "open"
  /\ UNCHANGED <<args, i, shards>>

Exit ==
  /\ gen_pc = "open"
  /\ s = num_shards
  /\ gen_pc' = "done"
  /\ UNCHANGED <<args, s, i, shards>>

GenNext == ArgsFail \/ CheckArgs \/ OpenShard \/ WriteRow \/ CloseShard \/ Exit

\* What is in the file of shard k, for load_data.
Row(columns) == [p \in 1 .. 2 * columns |->
                   IF p = 2 * columns THEN "\n" ELSE IF p % 2 = 0 THEN "," ELSE "v"]
FileOf(k) == [r \in DOMAIN shards[k] |-> Row(shards[k][r])]

-----------------------------------------------------------------------------

\* A complete run wrote every sample once, and no two shards differ by more
\* than one row, also when the division leaves a remainder.
SplitExactly ==
  gen_pc = "done" =>
    /\ Len(shards) = num_shards
    /\ MapThenSumSet(LAMBDA k : Len(shards[k]), DOMAIN shards) = total_samples
    /\ \A j, k \in DOMAIN shards : Len(shards[j]) <= Len(shards[k]) + 1
=============================================================================
