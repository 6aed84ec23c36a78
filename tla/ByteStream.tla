----------------------------- MODULE ByteStream -----------------------------
(***************************************************************************)
(* One direction of a connection, byte by byte: the sender frames each     *)
(* message (send_header, write_all), the kernel holds the bytes that were  *)
(* written and not read.  A byte is the message it belongs to and its      *)
(* position there.  Connections follow one another, as they do in a slot   *)
(* of the server's table.                                                  *)
(***************************************************************************)
EXTENDS Integers, Sequences

CONSTANTS
  HeaderSize,    \* HEADER_SIZE
  PayloadSize,   \* kind of message -> bytes of its payload
  MaxPayload,    \* bytes of the largest one, with MAX_FEATURES floats
  SocketSpace,   \* bytes the kernel holds before write() waits
  MaxConns,      \* bound: connections
  MaxMsgs        \* bound: messages of a connection

ASSUME ByteStreamAssumption ==
  /\ HeaderSize \in Nat \ {0}
  /\ \A t \in DOMAIN PayloadSize : PayloadSize[t] \in 0 .. MaxPayload
  /\ MaxPayload \in Nat
  /\ SocketSpace \in Nat \ {0}
  /\ MaxConns \in Nat
  /\ MaxMsgs \in Nat

Kinds == DOMAIN PayloadSize

VARIABLES
  conn,     \* connections made so far
  link,     \* the current one: "none", "pending" in the backlog, "open"
  msgs,     \* messages begun
  unsent,   \* bytes of the message that write_all has not written
  stream,   \* bytes written and not yet read
  closed,   \* has the sender closed its end?
  sent      \* messages written to their last byte

senderVars == <<msgs, unsent, closed>>
streamVars == <<conn, link, senderVars, stream, sent>>

Size(m) == HeaderSize + PayloadSize[m.type]
Bytes(m) == [k \in 1 .. Size(m) |-> <<m, k>>]

StreamInit ==
  /\ conn = 0
  /\ link = "none"
  /\ msgs = 0
  /\ unsent = <<>>
  /\ stream = <<>>
  /\ closed = FALSE
  /\ sent = <<>>

\* connect(): the server has not accepted yet, the sender may write.
Connect ==
  /\ link = "none"
  /\ conn < MaxConns
  /\ conn' = conn + 1
  /\ link' = "pending"
  /\ msgs' = 0
  /\ unsent' = <<>>
  /\ stream' = <<>>
  /\ closed' = FALSE
  /\ sent' = <<>>

StartMessage(t) ==
  /\ link # "none" /\ ~ closed
  /\ unsent = <<>>
  /\ msgs < MaxMsgs
  /\ msgs' = msgs + 1
  /\ unsent' = Bytes([type |-> t, conn |-> conn, n |-> msgs'])
  /\ UNCHANGED <<conn, link, stream, closed, sent>>

\* One write() of write_all: it takes some of the bytes it is given, which are
\* those of the header first and then those of the payload.
WriteSome ==
  /\ link # "none"
  /\ unsent # <<>>
  /\ LET m == Head(unsent)[1]
         given == IF Head(unsent)[2] <= HeaderSize
                  THEN Len(unsent) - PayloadSize[m.type] ELSE Len(unsent)
     IN \E k \in 1 .. given :
          /\ Len(stream) + k <= SocketSpace
          /\ stream' = stream \o SubSeq(unsent, 1, k)
          /\ unsent' = SubSeq(unsent, k + 1, Len(unsent))
          /\ sent' = IF k = Len(unsent) THEN Append(sent, m) ELSE sent
  /\ UNCHANGED <<conn, link, msgs, closed>>

\* The sender is done, or dies, possibly in the middle of a message.
SenderCloses ==
  /\ link # "none" /\ ~ closed
  /\ closed' = TRUE
  /\ unsent' = <<>>
  /\ UNCHANGED <<conn, link, msgs, stream, sent>>

SenderStep(kinds) ==
  (\E t \in kinds : StartMessage(t)) \/ WriteSome \/ SenderCloses
=============================================================================
