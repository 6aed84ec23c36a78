-------------------------- MODULE MCBlockingReader --------------------------
(***************************************************************************)
(* An instance of BlockingReader for TLC.                                  *)
(***************************************************************************)
EXTENDS BlockingReader

\* An unknown payload fills the draining buffer twice and a half, or is empty.
\* The worker's own MSG_DONE is neither the shortest nor the longest.
Payloads ==
  [weights |-> 2, short |-> 1, unknown |-> 5, empty |-> 0,
   done |-> 3, short_done |-> 1, long_done |-> 4]

Dones == {"done", "short_done", "long_done"}
=============================================================================
