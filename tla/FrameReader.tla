---------------------------- MODULE FrameReader ----------------------------
(***************************************************************************)
(* How the server finds the messages in a byte stream (accumulate_read,    *)
(* dispatch_message and the loop of main around it): one slot of the       *)
(* table, its receive buffer, and the connections that use it in turn.     *)
(* The sender registers and then sends gradients without waiting, so one   *)
(* read() may bring parts of several messages.                             *)
(***************************************************************************)
EXTENDS ByteStream

CONSTANT GradientKind  \* connection -> the kind of its gradients, by their size

ASSUME GradientKindAssumption ==
  /\ "register" \in Kinds
  /\ GradientKind \in [1 .. MaxConns -> Kinds]

VARIABLES
  recv_buf, recv_len,  \* of struct worker_info
  pc,                  \* "select", or "dispatch" in the loop over the buffer
  delivered            \* messages the handlers were given

readerVars == <<recv_buf, recv_len, pc, delivered>>
vars == <<streamVars, readerVars>>

\* What a handler makes of bytes that are not one message.
Garbled == [type |-> "garbled", conn |-> 0, n |-> 0]

\* The buffer holds the largest payload but no header.
Mutant_RecvBufSize == MaxPayload

RecvBufSize == HeaderSize + MaxPayload

\* The table is cleared when main starts.
Init ==
  /\ StreamInit
  /\ recv_buf = [i \in 0 .. RecvBufSize - 1 |-> <<Garbled, 0>>]
  /\ recv_len = 0
  /\ pc = "select"
  /\ delivered = <<>>

\* recv_len keeps what the last connection left there.
Mutant_add_worker ==
  /\ pc = "select"
  /\ link = "pending"
  /\ link' = "open"
  /\ UNCHANGED <<conn, senderVars, stream, sent, readerVars>>

\* add_worker does not touch the bytes of recv_buf.
add_worker ==
  /\ pc = "select"
  /\ link = "pending"
  /\ link' = "open"
  /\ recv_len' = 0
  /\ UNCHANGED <<conn, senderVars, stream, sent, recv_buf, pc, delivered>>

\* handle_disconnect: the slot is empty, what the kernel still holds is lost.
handle_disconnect ==
  /\ link' = "none"
  /\ stream' = <<>>
  /\ unsent' = <<>>
  /\ recv_len' = 0
  /\ UNCHANGED <<conn, msgs, closed, sent, recv_buf>>

\* The message whose header is at the start of the buffer.
Header ==
  LET m == recv_buf[0][1] IN
    IF \A k \in 1 .. HeaderSize : recv_buf[k - 1] = <<m, k>> THEN m ELSE Garbled

\* total_needed; bytes taken for a header may ask for any size.
Total == IF Header = Garbled THEN HeaderSize ELSE Size(Header)

Complete == recv_len >= HeaderSize /\ recv_len >= Total

\* One read(): some of what is there, as far as the buffer has room.
AccumulateRead ==
  /\ pc = "select"
  /\ link = "open"
  /\ \E k \in 1 .. RecvBufSize - recv_len :
       /\ k <= Len(stream)
       /\ recv_len' = recv_len + k
       /\ recv_buf' = [i \in DOMAIN recv_buf |->
            IF i \in recv_len .. recv_len + k - 1
            THEN stream[i - recv_len + 1] ELSE recv_buf[i]]
       /\ stream' = SubSeq(stream, k + 1, Len(stream))
  /\ pc' = IF Complete' THEN "dispatch" ELSE "select"
  /\ UNCHANGED <<conn, link, senderVars, sent, delivered>>

\* read() returns 0: end of file, or no room to read into.
ReadFails ==
  /\ pc = "select"
  /\ link = "open"
  /\ (stream = <<>> /\ closed) \/ (stream # <<>> /\ recv_len = RecvBufSize)
  /\ handle_disconnect
  /\ UNCHANGED <<pc, delivered>>

Message ==
  IF Header # Garbled /\ \A k \in 1 .. Total : recv_buf[k - 1] = <<Header, k>>
  THEN Header ELSE Garbled

\* The bytes behind the message stay where they are; the buffer is emptied.
Mutant_no_memmove ==
  /\ recv_len' = recv_len - Total
  /\ UNCHANGED recv_buf
Mutant_drop_rest == recv_len' = 0 /\ UNCHANGED recv_buf

\* The end of dispatch_message: what follows the message moves to the front.
Consume ==
  /\ recv_len' = recv_len - Total
  /\ recv_buf' = [i \in DOMAIN recv_buf |->
       IF i < recv_len - Total THEN recv_buf[i + Total] ELSE recv_buf[i]]

\* The loop of main dispatches one message of each read().
Mutant_MoreToDispatch == FALSE

\* The loop of main goes on while the buffer starts with a whole message.
MoreToDispatch == Complete

\* dispatch_message: the handler is given the message and keeps the worker.
Dispatch ==
  /\ pc = "dispatch"
  /\ delivered' = Append(delivered, Message)
  /\ Consume
  /\ pc' = IF MoreToDispatch' THEN "dispatch" ELSE "select"
  /\ UNCHANGED streamVars

\* handle_register drops the worker, after which dispatch_message still
\* subtracts the length of the message from a recv_len that is 0.
DispatchRefused ==
  /\ pc = "dispatch"
  /\ Message.type = "register"
  /\ delivered' = Append(delivered, Message)
  /\ link' = "none"
  /\ stream' = <<>>
  /\ unsent' = <<>>
  /\ recv_len' = 0 - Total
  /\ pc' = "select"
  /\ UNCHANGED <<conn, msgs, closed, sent, recv_buf>>

ServerStep == add_worker \/ AccumulateRead \/ ReadFails \/ Dispatch \/ DispatchRefused

Next ==
  \/ Connect /\ delivered' = <<>> /\ UNCHANGED <<recv_buf, recv_len, pc>>
  \/ SenderStep(IF msgs = 0 THEN {"register"} ELSE {GradientKind[conn]}) /\ UNCHANGED readerVars
  \/ ServerStep

Spec == Init /\ [][Next]_vars

\* The server keeps running; senders may pause or stop anywhere.
FairSpec == Spec /\ WF_vars(ServerStep)

-----------------------------------------------------------------------------

\* read() is never called with no room in the buffer, which would look like a
\* disconnect, nor with recv_len out of the buffer: neither a backlog of
\* messages nor what a dropped connection left in the slot leads there.
ReadHasRoom ==
  pc = "select" /\ link = "open" => recv_len \in 0 .. RecvBufSize - 1

Messages == [type : Kinds, conn : 1 .. MaxConns, n : 1 .. MaxMsgs]

\* accumulate_read goes by the header: no message is of another size.
Channel == INSTANCE MessageChannel WITH
  open <- link # "none",
  Misfits <- {}

\* However the stream is cut into reads, and whoever used the slot before, the
\* handlers see the messages of this connection, whole, once and in order.
ImplementsChannel == Channel!Spec

\* And no whole message is left in the buffer or the kernel for ever.
DeliversAll == Channel!Fairness
=============================================================================
