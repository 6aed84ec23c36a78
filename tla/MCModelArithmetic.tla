------------------------- MODULE MCModelArithmetic -------------------------
(***************************************************************************)
(* An instance of ModelArithmetic for TLC.  All numerators are multiples   *)
(* of 60, which every number of samples up to 6 divides.                   *)
(***************************************************************************)
EXTENDS ModelArithmetic

Samples == {[x |-> <<1, -2>>, y |-> 1], [x |-> <<1, 1>>, y |-> 0], [x |-> <<-1, 3>>, y |-> 1]}

SmallShards == UNION {[1 .. n -> Samples] : n \in 1 .. 2}
=============================================================================
