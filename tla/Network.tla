------------------------------ MODULE Network ------------------------------
(***************************************************************************)
(* The TCP connections between the workers and the server, as the code     *)
(* uses them: the two byte streams of a connection are FIFO queues of      *)
(* messages, a process that ends closes its sockets, a reset connection    *)
(* refuses writes.  The kernel is not part of the repository; this module  *)
(* models the calls net_utils.c and io_utils.c make on it.                 *)
(***************************************************************************)
EXTENDS Protocol

VARIABLES
  up,       \* worker -> server stream, not yet consumed by the server
  down,     \* server -> worker stream, not yet consumed by the worker
  peer,     \* the worker's end of the connection, as the server sees it
  hungup,   \* has the server closed its end of the connection?
  backlog   \* connections the kernel completed and accept() has not returned

netVars == <<up, down, peer, hungup, backlog>>

NetTypeOK ==
  /\ up \in [Workers -> Seq(UpMsgs)]
  /\ down \in [Workers -> Seq(DownMsgs)]
  /\ peer \in [Workers -> {"none", "open", "fin", "rst"}]
  /\ hungup \in [Workers -> BOOLEAN]
  /\ backlog \in Seq(Workers)

NetInit ==
  /\ up = [w \in Workers |-> <<>>]
  /\ down = [w \in Workers |-> <<>>]
  /\ peer = [w \in Workers |-> "none"]
  /\ hungup = [w \in Workers |-> FALSE]
  /\ backlog = <<>>

\* The connection of w waits for accept().
Pending(w) == \E n \in DOMAIN backlog : backlog[n] = w

\* A read by the server would not block: data, end of file or an error.
Readable(w) == up[w] # <<>> \/ peer[w] # "open"

\* The server's write_all to w: it fails on a reset connection.  A write to
\* an end that is closed still succeeds, and is answered by a reset.
WriteFails(w) == peer[w] = "rst"

Write(w, m) ==
  /\ ~ WriteFails(w)
  /\ down' = [down EXCEPT ![w] = IF peer[w] = "open" THEN Append(@, m) ELSE @]
  /\ peer' = [peer EXCEPT ![w] = IF @ = "fin" THEN "rst" ELSE @]

\* A worker's write: it reaches the server unless the server has closed.
WorkerWrite(w, m) ==
  up' = [up EXCEPT ![w] = IF hungup[w] THEN @ ELSE Append(@, m)]
=============================================================================
