---------------------------- MODULE MCFrameReader ----------------------------
(***************************************************************************)
(* An instance of FrameReader for TLC.                                     *)
(***************************************************************************)
EXTENDS FrameReader

\* The buffer has room for exactly one gradient with MAX_FEATURES features, and
\* for two with one feature.
Payloads == [register |-> 2, narrow |-> 1, widest |-> 5]

WidestSecond == [c \in 1 .. MaxConns |-> IF c = 2 THEN "widest" ELSE "narrow"]
=============================================================================
