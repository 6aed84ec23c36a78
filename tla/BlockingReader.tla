--------------------------- MODULE BlockingReader ---------------------------
(***************************************************************************)
(* How a worker finds the messages in the server's byte stream: read_all,  *)
(* the receive loop of main and handle_done.  The loop also has branches   *)
(* for what this server never sends: weights without room for a round and  *)
(* a feature count ("short") and other types ("unknown").  A               *)
(* payload larger than its buffer, which ends the loop, is left out.       *)
(* handle_done does not look at the payload the header announces: it reads *)
(* that of a model with this worker's own feature count.                   *)
(***************************************************************************)
EXTENDS ByteStream

CONSTANTS
  DrainSize,  \* bytes of the buffer unknown payloads are drained into
  DoneKinds,  \* the kinds that are MSG_DONE, one per feature count
  OwnDone     \* bytes handle_done reads: 8 and num_features floats

ASSUME DrainSizeAssumption == DrainSize \in Nat \ {0}
ASSUME DoneAssumption == DoneKinds \subseteq Kinds /\ OwnDone \in Nat \ {0}

VARIABLES
  got,       \* bytes read of the message so far, its header first
  want,      \* bytes the running read_all has yet to read
  left,      \* bytes the branch will read after that
  delivered  \* messages the worker read whole, and acted on or skipped

readerVars == <<got, want, left, delivered>>
vars == <<streamVars, readerVars>>

Garbled == [type |-> "garbled", conn |-> 0, n |-> 0]
Messages == [type : Kinds, conn : 1 .. MaxConns, n : 1 .. MaxMsgs]

\* A MSG_DONE with more weights than this worker's model has, or with fewer.
Misfits == {m \in Messages : m.type \in DoneKinds /\ PayloadSize[m.type] # OwnDone}

Init ==
  /\ StreamInit
  /\ got = <<>>
  /\ want = 0
  /\ left = 0
  /\ delivered = <<>>

\* The start of the loop: read_all of a header.
NextHeader == got' = <<>> /\ want' = HeaderSize /\ left' = 0

\* connect_to_server returned and main enters its loop.
Enter ==
  /\ link = "pending"
  /\ link' = "open"
  /\ NextHeader
  /\ UNCHANGED <<conn, senderVars, stream, sent, delivered>>

\* One read() of read_all: some of what is there, never more than it wants.
ReadSome ==
  /\ link = "open"
  /\ \E k \in 1 .. want :
       /\ k <= Len(stream)
       /\ got' = got \o SubSeq(stream, 1, k)
       /\ want' = want - k
       /\ stream' = SubSeq(stream, k + 1, Len(stream))
  /\ UNCHANGED <<conn, link, senderVars, sent, left, delivered>>

\* close() after break: what the kernel still holds is lost.
Close ==
  /\ link' = "none"
  /\ stream' = <<>>
  /\ unsent' = <<>>
  /\ want' = 0
  /\ left' = 0
  /\ UNCHANGED <<conn, msgs, closed, sent, got>>

\* The end of the stream is noticed between messages only.
Mutant_ReadFails ==
  /\ link = "open"
  /\ want > 0 /\ stream = <<>> /\ closed
  /\ Len(got) < HeaderSize
  /\ Close
  /\ UNCHANGED delivered

\* read_all fails at the end of the stream; the short and the draining branch
\* first go on to the next header, which fails as well.
ReadFails ==
  /\ link = "open"
  /\ want > 0 /\ stream = <<>> /\ closed
  /\ Close
  /\ UNCHANGED delivered

\* The message that `got` is the header of, or all of.
HeaderOf ==
  IF SubSeq(got, 1, HeaderSize) = SubSeq(Bytes(got[1][1]), 1, HeaderSize)
  THEN got[1][1] ELSE Garbled
Message == IF HeaderOf # Garbled /\ got = Bytes(HeaderOf) THEN HeaderOf ELSE Garbled

\* A payload too short for weights is left in the stream; the draining loop
\* always asks for a full buffer.
Mutant_Payload(m) ==
  IF m.type \in DoneKinds THEN OwnDone
  ELSE IF m.type = "short" THEN 0 ELSE PayloadSize[m.type]
Mutant_Chunk(m, n) == IF m.type = "unknown" THEN DrainSize ELSE n

\* Bytes read behind the header.
Payload(m) == IF m.type \in DoneKinds THEN OwnDone ELSE PayloadSize[m.type]

\* What is read at once of the n bytes to come.
Chunk(m, n) == IF m.type = "unknown" /\ n > DrainSize THEN DrainSize ELSE n

\* The branches on type and size: each reads the whole payload, the branch for
\* unknown types in a loop.
ReadOn ==
  /\ link = "open" /\ want = 0
  /\ HeaderOf # Garbled
  /\ LET rest == IF Len(got) = HeaderSize THEN Payload(HeaderOf) ELSE left IN
       /\ rest > 0
       /\ want' = Chunk(HeaderOf, rest)
       /\ left' = rest - want'
  /\ UNCHANGED <<streamVars, got, delivered>>

\* The branch is done; MSG_DONE ends the loop, everything else goes on.  Of a
\* longer MSG_DONE the end is lost, behind a shorter one something else was read:
\* handle_done shows what it has, which is no message of the server.  Bytes that
\* are no header end the loop somehow.
PayloadRead ==
  /\ link = "open" /\ want = 0 /\ left = 0
  /\ HeaderOf = Garbled \/ Len(got) > HeaderSize \/ Payload(HeaderOf) = 0
  /\ delivered' = IF HeaderOf \in Misfits THEN delivered ELSE Append(delivered, Message)
  /\ IF HeaderOf.type \in DoneKinds \cup {"garbled"} THEN Close
     ELSE NextHeader /\ UNCHANGED streamVars

WorkerStep == Enter \/ ReadSome \/ ReadFails \/ ReadOn \/ PayloadRead

Next ==
  \/ Connect /\ delivered' = <<>> /\ UNCHANGED <<got, want, left>>
  \/ SenderStep(Kinds) /\ UNCHANGED readerVars
  \/ WorkerStep

Spec == Init /\ [][Next]_vars

\* The worker keeps running; the server may pause or stop anywhere.
FairSpec == Spec /\ WF_vars(WorkerStep)

-----------------------------------------------------------------------------

Channel == INSTANCE MessageChannel WITH open <- link # "none"

\* The worker acts on the server's messages whole, once and in order, and a
\* message it skips never shifts the ones behind it; only at a MSG_DONE of
\* another feature count does it give the connection up without the message.
WorkerImplementsChannel == Channel!Spec

\* It reads no further than a message goes: whatever was sent whole, up to a
\* MSG_DONE of another feature count, is acted on, although nothing may follow.
WorkerDeliversAll == Channel!Fairness

\* A worker whose server is gone notices, wherever the stream breaks off and
\* however much it was going to read: in a header, in a payload, in handle_done.
WorkerNoticesClose == closed ~> link = "none"
=============================================================================
