------------------------------- MODULE Worker -------------------------------
(***************************************************************************)
(* A worker process (worker.c): connect, register, then answer every       *)
(* MSG_WEIGHTS with a gradient until MSG_DONE or the end of the            *)
(* connection.  A step is the code between two blocking system calls.      *)
(***************************************************************************)
EXTENDS Network

VARIABLES
  wpc,     \* where main is
  wround,  \* the round of the last MSG_WEIGHTS
  wmodel   \* what the array `weights` holds

workerVars == <<wpc, wround, wmodel>>

Connected == {"connected", "waiting", "computing"}

WorkerTypeOK ==
  /\ wpc \in [Workers -> {"idle", "done", "exited", "dead"} \cup Connected]
  /\ wround \in [Workers -> Nat]
  /\ wmodel \in [Workers -> Models]

\* `weights` comes from malloc and holds nothing meaningful yet.
WorkerInit ==
  /\ wpc = [w \in Workers |-> "idle"]
  /\ wround = [w \in Workers |-> 0]
  /\ wmodel = [w \in Workers |-> Mixed]

Continue(w, label) == wpc' = [wpc EXCEPT ![w] = label]

\* break out of the receive loop (or return from main) and close the socket.
Leave(w, label) ==
  /\ Continue(w, label)
  /\ peer' = [peer EXCEPT ![w] = IF @ = "open" THEN "fin" ELSE @]

\* connect_to_server succeeds: the kernel completes the connection before the
\* server calls accept().
Connect(w) ==
  /\ wpc[w] = "idle"
  /\ Continue(w, "connected")
  /\ peer' = [peer EXCEPT ![w] = "open"]
  /\ backlog' = Append(backlog, w)
  /\ UNCHANGED <<up, down, hungup, wround, wmodel>>

\* Nobody listens: the worker returns 1.
ConnectRefused(w) ==
  /\ wpc[w] = "idle"
  /\ Continue(w, "exited")
  /\ UNCHANGED <<netVars, wround, wmodel>>

\* A write on a connection the server closed may be accepted or refused.
SendRegister(w) ==
  /\ wpc[w] = "connected"
  /\ WorkerWrite(w, RegisterMsg(w))
  /\ Continue(w, "waiting")
  /\ UNCHANGED <<down, peer, hungup, backlog, wround, wmodel>>

\* The worker copies as many weights as both sides have features, and
\* computes on all of its own.
ReceiveWeights(w) ==
  /\ wpc[w] = "waiting"
  /\ down[w] # <<>>
  /\ LET m == Head(down[w]) IN
       /\ m.type = "weights"
       /\ wround' = [wround EXCEPT ![w] = m.round]
       /\ wmodel' = [wmodel EXCEPT ![w] = IF m.nf < Features[w] THEN Mixed ELSE m.model]
  /\ down' = [down EXCEPT ![w] = Tail(@)]
  /\ Continue(w, "computing")
  /\ UNCHANGED <<up, peer, hungup, backlog>>

SendGradient(w) ==
  /\ wpc[w] = "computing"
  /\ WorkerWrite(w, GradientMsg(w, wround[w], wmodel[w]))
  /\ Continue(w, "waiting")
  /\ UNCHANGED <<down, peer, hungup, backlog, wround, wmodel>>

\* The other outcome of the two writes: the server's reset is already here.
WriteRefused(w) ==
  /\ wpc[w] \in {"connected", "computing"}
  /\ hungup[w]
  /\ Leave(w, "exited")
  /\ UNCHANGED <<up, down, hungup, backlog, wround, wmodel>>

\* The final weights are printed but not copied.
Mutant_ReceiveDone(w) ==
  /\ wpc[w] = "waiting"
  /\ down[w] # <<>>
  /\ Head(down[w]).type = "done"
  /\ Leave(w, "done")
  /\ down' = [down EXCEPT ![w] = Tail(@)]
  /\ UNCHANGED <<up, hungup, backlog, wround, wmodel>>

\* handle_done reads as many weights as the worker itself has features: a
\* shorter payload leaves it waiting until the server closes the connection.
ReceiveDone(w) ==
  /\ wpc[w] = "waiting"
  /\ down[w] # <<>>
  /\ LET m == Head(down[w]) IN
       /\ m.type = "done"
       /\ \/ /\ m.nf >= Features[w]
             /\ wmodel' = [wmodel EXCEPT ![w] = m.model]
             /\ Leave(w, "done")
          \/ /\ m.nf < Features[w]
             /\ hungup[w]
             /\ UNCHANGED wmodel
             /\ Leave(w, "exited")
  /\ down' = [down EXCEPT ![w] = Tail(@)]
  /\ UNCHANGED <<up, hungup, backlog, wround>>

\* read_all fails while the worker waits for a header.
ReadEof(w) ==
  /\ wpc[w] = "waiting"
  /\ down[w] = <<>>
  /\ hungup[w]
  /\ Leave(w, "exited")
  /\ UNCHANGED <<up, down, hungup, backlog, wround, wmodel>>

\* The process is killed or its connection breaks.  The server sees an end of
\* file, or a reset, which unread input makes certain.  A gradient may be cut
\* off after its header; a reset may destroy data on its way to the server.
Crash(w) ==
  /\ w \in Mortal
  /\ wpc[w] \in Connected
  /\ Continue(w, "dead")
  /\ \E end \in {"fin", "rst"} :
       /\ end = "fin" => down[w] = <<>>
       /\ peer' = [peer EXCEPT ![w] = end]
       /\ \/ UNCHANGED up
          \/ wpc[w] = "computing" /\ WorkerWrite(w, Fragment)
          \/ /\ end = "rst" /\ up[w] # <<>>
             /\ \E rest \in {<<>>, <<Fragment>>} : up' = [up EXCEPT ![w] = rest]
  /\ down' = [down EXCEPT ![w] = <<>>]
  /\ UNCHANGED <<hungup, backlog, wround, wmodel>>

WorkerStep(w) ==
  \/ SendRegister(w) \/ ReceiveWeights(w) \/ SendGradient(w)
  \/ WriteRefused(w) \/ ReceiveDone(w) \/ ReadEof(w)
=============================================================================
