---------------------------- MODULE ShardLoading ----------------------------
(***************************************************************************)
(* From samples to a worker's arrays: gen_data writes the shards and       *)
(* load_data reads one of them; or load_data reads a file that somebody    *)
(* else wrote.                                                             *)
(***************************************************************************)
EXTENDS GenData, DataLoader

CONSTANT Files  \* files of other origin

ASSUME FilesAssumption == Files \subseteq Seq(Seq({",", "v", " ", "\n"}))

vars == <<genVars, loadVars>>

\* The generator is not used at all.
GenUnused ==
  /\ num_features = 0 /\ total_samples = 0 /\ num_shards = 0
  /\ gen_pc = "unused"
  /\ s = 0 /\ i = 0
  /\ shards = <<>>

Init == (GenInit \/ GenUnused) /\ LoadInit

\* A worker is started on a shard after the generator has finished.
CallOnShard == gen_pc = "done" /\ Call({FileOf(k) : k \in DOMAIN shards})
CallOnFile == gen_pc = "unused" /\ Call(Files)

Next ==
  \/ GenNext /\ UNCHANGED loadVars
  \/ (CallOnShard \/ CallOnFile \/ LoadNext) /\ UNCHANGED genVars

Spec == Init /\ [][Next]_vars

-----------------------------------------------------------------------------

\* A shard the generator wrote is refused only for a lack of memory or of the
\* file, or if it is empty, which takes more shards than samples; a loaded one
\* has all its rows, the number of features asked for, and no hole.
ShardsLoad ==
  gen_pc = "done" =>
    /\ pc = "failed" => fault \/ (file = <<>> /\ total_samples < num_shards)
    /\ pc = "ok" =>
         /\ features = num_features
         /\ \E k \in DOMAIN shards : samples = Len(shards[k])
         /\ \A c \in DOMAIN X : X[c] # Uninitialised
         /\ \A r \in DOMAIN y : y[r] # Uninitialised
=============================================================================
