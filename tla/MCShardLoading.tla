---------------------------- MODULE MCShardLoading ---------------------------
(***************************************************************************)
(* Files for ShardLoading: with or without a newline at their end, all     *)
(* those of up to two short lines, and some longer ones of three lines.    *)
(***************************************************************************)
EXTENDS ShardLoading

NL == <<"\n">>
Texts == UNION {[1 .. n -> {",", "v", " "}] : n \in 0 .. 3}
Rows == {<<"v", ",", "v", ",", "v">>, <<"v", ",", ",", "v">>, <<",", "v", ",", "v">>,
         <<"v", ",", "v", ",">>, <<"v", ",", " ", "v", ",", "v">>, <<" ">>, <<>>,
         <<"v", ",", "v">>}

\* Whole lines, and a last one that may lack its newline.
FilesOf(texts, n) ==
  {[k \in 1 .. n |-> t[k] \o (IF k < n \/ newline THEN NL ELSE <<>>)] :
     t \in {u \in [1 .. n -> texts] : u[n] # <<>>}, newline \in BOOLEAN}

SmallFiles == {<<>>, <<NL>>} \cup UNION {FilesOf(Texts, n) : n \in 1 .. 2} \cup FilesOf(Rows, 3)
=============================================================================
