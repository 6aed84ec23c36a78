--------------------------- MODULE MessageChannel ---------------------------
(***************************************************************************)
(* What framing promises to the handlers: a FIFO channel of messages.      *)
(* Nothing is lost, altered, repeated or reordered, every message that was *)
(* sent whole is delivered while the connection is kept, and a connection  *)
(* is given up only with nothing left to deliver, by the handler of a      *)
(* message it refused, or at a message its reader cannot read.             *)
(***************************************************************************)
EXTENDS Naturals, Sequences

CONSTANTS
  Messages,
  Misfits    \* those that are not of the size their reader takes them for

VARIABLES open, sent, delivered

channelVars == <<open, sent, delivered>>

Init == open = FALSE /\ sent = <<>> /\ delivered = <<>>

Connect ==
  /\ ~ open
  /\ open' = TRUE
  /\ sent' = <<>>
  /\ delivered' = <<>>

Send ==
  /\ open
  /\ \E m \in Messages : sent' = Append(sent, m)
  /\ UNCHANGED <<open, delivered>>

Undelivered == Len(delivered) < Len(sent)
NextMessage == sent[Len(delivered) + 1]

\* The handler keeps the connection or closes it.
Deliver ==
  /\ open
  /\ Undelivered
  /\ NextMessage \notin Misfits
  /\ delivered' = Append(delivered, NextMessage)
  /\ open' \in BOOLEAN
  /\ UNCHANGED sent

Hangup ==
  /\ open
  /\ Undelivered => NextMessage \in Misfits
  /\ open' = FALSE
  /\ UNCHANGED <<sent, delivered>>

Next == Connect \/ Send \/ Deliver \/ Hangup

Spec == Init /\ [][Next]_channelVars

\* A message that waits on an open connection, with none its reader cannot read
\* before it, is delivered.
Fairness == WF_channelVars(Deliver)
=============================================================================
