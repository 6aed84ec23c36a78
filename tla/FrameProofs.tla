---------------------------- MODULE FrameProofs ----------------------------
(***************************************************************************)
(* The receive buffer always has room, and the handlers see the messages   *)
(* that were sent, whole, once and in order: for every header size,        *)
(* payload sizes, sequence of messages and way to cut the stream into      *)
(* reads.                                                                  *)
(***************************************************************************)
EXTENDS FrameReader, StreamProofs

\* Bytes of messages, and what the buffer may hold besides.
Byte == (Sendable \cup {Garbled}) \X Nat

TypeInv ==
  /\ conn \in 0 .. MaxConns /\ msgs \in 0 .. MaxMsgs
  /\ link \in {"none", "pending", "open"}
  /\ link # "none" => conn > 0
  /\ stream \in Seq(SentByte) /\ unsent \in Seq(SentByte)
  /\ recv_buf \in [0 .. RecvBufSize - 1 -> Byte]
  /\ recv_len \in Int
  /\ pc \in {"select", "dispatch"}

\* recv_len stays in the buffer while the slot is taken; main goes back to
\* select() only when no whole message is left, and into the loop only with one.
BufferInv ==
  /\ link = "open" => recv_len \in 0 .. RecvBufSize
  /\ pc = "select" /\ link = "open" => ~ Complete
  /\ pc = "dispatch" => link = "open" /\ Complete

Inv == TypeInv /\ BufferInv

\* The assumptions on the sizes, in the form the steps use.
LEMMA Sizes ==
  /\ HeaderSize \in Nat /\ HeaderSize > 0 /\ MaxPayload \in Nat
  /\ RecvBufSize = HeaderSize + MaxPayload
  /\ RecvBufSize \in Nat /\ 0 \in 0 .. RecvBufSize - 1
  /\ \A t \in Kinds : PayloadSize[t] \in 0 .. MaxPayload
BY ByteStreamAssumption DEF ByteStreamAssumption, RecvBufSize, Kinds

\* No header in the buffer asks for more than the buffer holds.
LEMMA TotalFits ==
  ASSUME recv_buf \in [0 .. RecvBufSize - 1 -> Byte]
  PROVE  Total \in HeaderSize .. RecvBufSize
<1>1. CASE Header = Garbled
  BY <1>1, Sizes DEF Total
<1>2. CASE Header # Garbled
  <2>1. Header = recv_buf[0][1]
    BY <1>2 DEF Header
  <2>2. recv_buf[0] \in Byte
    BY Sizes
  <2>3. Header \in Sendable
    BY <1>2, <2>1, <2>2 DEF Byte
  <2>4. Header.type \in Kinds
    BY <2>3 DEF Sendable
  <2> QED
    BY <1>2, <2>4, Sizes DEF Total, Size
<1> QED
  BY <1>1, <1>2

\* What the invariant is for.
LEMMA RoomWhileIncomplete ==
  ASSUME Inv
  PROVE  ReadHasRoom
<1> SUFFICES ASSUME pc = "select", link = "open"
             PROVE  recv_len \in 0 .. RecvBufSize - 1
  BY DEF ReadHasRoom
<1>1. recv_len \in 0 .. RecvBufSize /\ ~ Complete
  BY DEF Inv, BufferInv
<1>2. Total \in HeaderSize .. RecvBufSize
  BY TotalFits DEF Inv, TypeInv
<1> QED
  BY <1>1, <1>2, Sizes DEF Complete

LEMMA InitInv == Init => Inv
<1> SUFFICES ASSUME Init PROVE Inv
  OBVIOUS
<1>1. <<Garbled, 0>> \in Byte
  BY DEF Byte
<1>2. TypeInv
  BY <1>1, Sizes, ByteStreamAssumption DEF TypeInv, Init, StreamInit, ByteStreamAssumption
<1>3. BufferInv
  BY DEF BufferInv, Init, StreamInit
<1> QED
  BY <1>2, <1>3 DEF Inv

\* The steps of the sender leave the slot and its buffer alone.
LEMMA SenderInv ==
  ASSUME Inv,
         \/ Connect /\ delivered' = <<>> /\ UNCHANGED <<recv_buf, recv_len, pc>>
         \/ SenderStep(IF msgs = 0 THEN {"register"} ELSE {GradientKind[conn]})
              /\ UNCHANGED readerVars
  PROVE  Inv'
<1> USE DEF Inv
<1>1. UNCHANGED <<recv_buf, recv_len, pc>>
  BY DEF readerVars
<1>2. link' = link \/ (link = "none" /\ link' = "pending")
  BY DEF Connect, SenderStep, StartMessage, WriteSome, SenderCloses
<1>3. BufferInv'
  BY <1>1, <1>2 DEF BufferInv, Complete, Total, Header
<1>4. CASE Connect
  <2>1. conn' \in 0 .. MaxConns /\ conn' > 0 /\ msgs' \in 0 .. MaxMsgs
    BY <1>4, ByteStreamAssumption DEF Connect, TypeInv, ByteStreamAssumption
  <2> QED
    BY <1>1, <1>3, <1>4, <2>1 DEF TypeInv, Connect
<1>5. ASSUME NEW t \in Kinds, StartMessage(t)
      PROVE  Inv'
  <2> DEFINE m == [type |-> t, conn |-> conn, n |-> msgs + 1]
  <2>1. m \in Sendable
    <3>1. msgs + 1 \in 1 .. MaxMsgs /\ conn \in 1 .. MaxConns
      BY <1>5, ByteStreamAssumption DEF StartMessage, TypeInv, ByteStreamAssumption
    <3>2. QED
      BY <3>1 DEF Sendable
  <2>2. Size(m) \in Nat
    BY <2>1, MessageSizes
  <2>3. Bytes(m) \in Seq(SentByte)
    <3>1. \A k \in 1 .. Size(m) : <<m, k>> \in SentByte
      BY <2>1, <2>2 DEF SentByte
    <3> QED
      BY <2>2, <3>1 DEF Bytes
  <2>4. unsent' \in Seq(SentByte) /\ msgs' \in 0 .. MaxMsgs
    BY <1>5, <2>3, ByteStreamAssumption DEF StartMessage, TypeInv, ByteStreamAssumption
  <2> QED
    BY <1>1, <1>3, <1>5, <2>4 DEF TypeInv, StartMessage
<1>6. CASE WriteSome
  <2>1. PICK k \in 1 .. Len(unsent) :
          /\ stream' = stream \o SubSeq(unsent, 1, k)
          /\ unsent' = SubSeq(unsent, k + 1, Len(unsent))
    <3>1. unsent # <<>> /\ Head(unsent) \in SentByte
      BY <1>6 DEF WriteSome, TypeInv
    <3>2. Head(unsent)[1].type \in Kinds
      BY <3>1 DEF SentByte, Sendable
    <3>3. PayloadSize[Head(unsent)[1].type] \in Nat
      BY <3>2, Sizes
    <3> DEFINE given == IF Head(unsent)[2] <= HeaderSize
                        THEN Len(unsent) - PayloadSize[Head(unsent)[1].type]
                        ELSE Len(unsent)
    <3>4. given \in Int /\ given <= Len(unsent)
      BY <3>1, <3>3 DEF TypeInv
    <3>5. \E k \in 1 .. given :
            /\ stream' = stream \o SubSeq(unsent, 1, k)
            /\ unsent' = SubSeq(unsent, k + 1, Len(unsent))
      BY <1>6 DEF WriteSome
    <3>6. \A k \in 1 .. given : k \in 1 .. Len(unsent)
      <4> HIDE DEF given
      <4>1. Len(unsent) \in Nat
        BY DEF TypeInv
      <4> QED
        BY <3>4, <4>1
    <3> QED
      <4> HIDE DEF given
      <4> QED BY <3>5, <3>6
  <2>2. stream' \in Seq(SentByte) /\ unsent' \in Seq(SentByte)
    BY <2>1 DEF TypeInv
  <2> QED
    BY <1>1, <1>3, <1>6, <2>2 DEF TypeInv, WriteSome
<1>7. CASE SenderCloses
  BY <1>1, <1>3, <1>7 DEF TypeInv, SenderCloses
<1>8. \A t \in (IF msgs = 0 THEN {"register"} ELSE {GradientKind[conn]}) :
        link # "none" => t \in Kinds
  BY GradientKindAssumption DEF GradientKindAssumption, TypeInv
<1> QED
  BY <1>4, <1>5, <1>6, <1>7, <1>8 DEF SenderStep, StartMessage

LEMMA ServerInv ==
  ASSUME Inv, ServerStep
  PROVE  Inv'
<1> USE DEF Inv
<1>1. CASE add_worker
  BY <1>1, Sizes DEF add_worker, TypeInv, BufferInv, Complete, senderVars
<1>2. CASE AccumulateRead
  <2>1. PICK k \in 1 .. RecvBufSize - recv_len :
          /\ k <= Len(stream)
          /\ recv_len' = recv_len + k
          /\ recv_buf' = [i \in DOMAIN recv_buf |->
               IF i \in recv_len .. recv_len + k - 1
               THEN stream[i - recv_len + 1] ELSE recv_buf[i]]
          /\ stream' = SubSeq(stream, k + 1, Len(stream))
    BY <1>2 DEF AccumulateRead
  <2>2. recv_len \in 0 .. RecvBufSize
    BY <1>2 DEF AccumulateRead, BufferInv
  <2>3. recv_len' \in 0 .. RecvBufSize
    BY <2>1, <2>2, Sizes
  <2>4. recv_buf' \in [0 .. RecvBufSize - 1 -> Byte]
    <3>1. \A i \in recv_len .. recv_len + k - 1 : stream[i - recv_len + 1] \in Byte
      <4>1. \A i \in recv_len .. recv_len + k - 1 : stream[i - recv_len + 1] \in SentByte
        BY <2>1, <2>2, Sizes DEF TypeInv
      <4> QED
        BY <4>1 DEF SentByte, Byte
    <3>2. /\ DOMAIN recv_buf = 0 .. RecvBufSize - 1
          /\ \A i \in 0 .. RecvBufSize - 1 : recv_buf[i] \in Byte
      BY DEF TypeInv
    <3> DEFINE cell(i) == IF i \in recv_len .. recv_len + k - 1
                          THEN stream[i - recv_len + 1] ELSE recv_buf[i]
    <3>3. \A i \in 0 .. RecvBufSize - 1 : cell(i) \in Byte
      BY <3>1, <3>2
    <3>4. recv_buf' = [i \in 0 .. RecvBufSize - 1 |-> cell(i)]
      BY <2>1, <3>2
    <3> QED
      <4> HIDE DEF cell
      <4> QED BY <3>3, <3>4
  <2>5. stream' \in Seq(SentByte)
    BY <2>1 DEF TypeInv
  <2>6. /\ UNCHANGED <<conn, link, msgs, unsent>> /\ link = "open"
        /\ pc' = IF Complete' THEN "dispatch" ELSE "select"
    BY <1>2 DEF AccumulateRead, senderVars
  <2>7. TypeInv'
    <3>1. recv_len' \in Int /\ pc' \in {"select", "dispatch"}
      BY <2>3, <2>6, Sizes
    <3> QED
      BY <2>4, <2>5, <2>6, <3>1 DEF TypeInv
  <2> QED
    BY <2>3, <2>6, <2>7 DEF BufferInv
<1>3. CASE ReadFails
  BY <1>3 DEF ReadFails, handle_disconnect, TypeInv, BufferInv
<1>4. CASE Dispatch
  <2>1. link = "open" /\ Complete /\ recv_len \in 0 .. RecvBufSize
    BY <1>4 DEF Dispatch, BufferInv
  <2>2. Total \in HeaderSize .. RecvBufSize
    BY TotalFits DEF TypeInv
  <2>3. recv_len' \in 0 .. RecvBufSize
    BY <1>4, <2>1, <2>2, Sizes DEF Dispatch, Consume, Complete
  <2>4. recv_buf' \in [0 .. RecvBufSize - 1 -> Byte]
    BY <1>4, <2>1, <2>2, Sizes DEF Dispatch, Consume, TypeInv
  <2>5. TypeInv'
    BY <1>4, <2>3, <2>4, Sizes DEF TypeInv, Dispatch, streamVars, senderVars
  <2>6. link' = "open" /\ pc' = IF Complete' THEN "dispatch" ELSE "select"
    BY <1>4, <2>1 DEF Dispatch, MoreToDispatch, streamVars
  <2> QED
    BY <2>3, <2>5, <2>6 DEF BufferInv
<1>5. CASE DispatchRefused
  <2>1. Total \in HeaderSize .. RecvBufSize
    BY TotalFits DEF TypeInv
  <2> QED
    BY <1>5, <2>1, Sizes DEF DispatchRefused, TypeInv, BufferInv
<1> QED
  BY <1>1, <1>2, <1>3, <1>4, <1>5 DEF ServerStep

LEMMA StutterInv == Inv /\ UNCHANGED vars => Inv'
BY DEF Inv, TypeInv, BufferInv, Complete, Total, Header, vars, streamVars, senderVars,
       readerVars

\* read() always has room and a place in the buffer, whatever the sizes.
THEOREM AlwaysRoom == Spec => []ReadHasRoom
<1>1. Inv /\ [Next]_vars => Inv'
  BY SenderInv, ServerInv, StutterInv DEF Next
<1>2. Inv => ReadHasRoom
  BY RoomWhileIncomplete
<1> QED
  BY InitInv, <1>1, <1>2, PTL DEF Spec

-----------------------------------------------------------------------------
(* The buffer holds the next bytes of the stream.                          *)

\* The bytes read of the messages that are not delivered.
Held == IF link = "open" THEN [i \in 1 .. recv_len |-> recv_buf[i - 1]] ELSE <<>>

\* What the handlers were given and what is under way is what was sent.
StreamInv ==
  /\ delivered \in Seq(Sendable)
  /\ link # "none" => StreamOK(Held, Len(delivered))

ChannelInv == Inv /\ StreamInv

\* The bytes in the buffer.
LEMMA HeldBytes ==
  ASSUME Inv, link = "open"
  PROVE  /\ recv_len \in 0 .. RecvBufSize /\ Len(Held) = recv_len
         /\ \A i \in 1 .. recv_len : Held[i] = recv_buf[i - 1]
  BY Sizes DEF Inv, BufferInv, Held

\* A header in the buffer is that of the next message, and a whole message is it.
LEMMA FrontOfBuffer ==
  ASSUME ChannelInv, link = "open", recv_len >= HeaderSize
  PROVE  LET m == Held[1][1] IN
           /\ Held # <<>> /\ m \in Sendable /\ Total = Size(m)
           /\ recv_len >= Size(m) => Message = m
<1> DEFINE m == Held[1][1]
<1>1. PICK d \in Nat, h, B \in Seq(SentByte) :
        /\ d = Len(delivered) /\ h = Held /\ B = InFlight(h) /\ Framed(B, d)
        /\ h \in Seq(SentByte) /\ stream \in Seq(SentByte) /\ unsent \in Seq(SentByte)
  BY DEF ChannelInv, StreamInv, StreamOK, Framed
<1>2. /\ recv_len \in Nat /\ Len(h) = recv_len
      /\ \A i \in 1 .. recv_len : h[i] = recv_buf[i - 1]
  BY <1>1, HeldBytes, Sizes DEF ChannelInv
<1>3. Len(B) >= Len(h) /\ \A i \in 1 .. Len(h) : B[i] = h[i]
  <2>1. /\ Len(B) = Len(h) + Len(stream) + Len(unsent)
        /\ \A i \in 1 .. Len(h) : B[i] = h[i]
    BY <1>1, WhereBytesAre
  <2>2. Len(h) \in Nat /\ Len(stream) \in Nat /\ Len(unsent) \in Nat
    BY <1>1
  <2>3. QED
    BY <2>1, <2>2
<1>4. recv_len > 0 /\ B # <<>> /\ B[1] = h[1]
  BY <1>2, <1>3, Sizes
<1>5. /\ m \in Sendable
      /\ \A j \in 1 .. Size(m) : j <= recv_len => recv_buf[j - 1] = <<m, j>>
  <2>1. m \in Sendable /\ \A j \in 1 .. Size(m) : j <= Len(B) => B[j] = <<m, j>>
    BY <1>1, <1>4, FirstMessage
  <2>2. QED
    BY <2>1, <1>2, <1>3
<1>6. Size(m) \in Nat /\ Size(m) >= HeaderSize /\ Size(m) > 0
  BY <1>5, MessageSizes
<1>7. recv_buf[0] = <<m, 1>>
  BY <1>4, <1>5, <1>6, <1>2
<1>8. Header = m
  <2>1. \A k \in 1 .. HeaderSize : k \in 1 .. Size(m) /\ k <= recv_len
    BY <1>2, <1>6, Sizes
  <2>2. \A k \in 1 .. HeaderSize : recv_buf[k - 1] = <<m, k>>
    BY <2>1, <1>5
  <2>3. recv_buf[0][1] = m
    BY <1>7
  <2>4. QED
    BY <2>2, <2>3, Zenon DEF Header
<1>9. m # Garbled
  BY <1>5 DEF Sendable, Garbled
<1>10. Total = Size(m)
  BY <1>8, <1>9 DEF Total
<1>11. recv_len >= Size(m) => Message = m
  BY <1>2, <1>5, <1>6, <1>8, <1>9, <1>10 DEF Message
<1>12. QED
  BY <1>1, <1>2, <1>4, <1>5, <1>10, <1>11

\* What is held when the buffer holds no whole message.
LEMMA IncompleteFront ==
  ASSUME ChannelInv, link = "open", ~ Complete, Held # <<>>
  PROVE  Len(Held) < Size(Held[1][1])
<1>1. recv_len \in Nat /\ Len(Held) = recv_len
  BY HeldBytes, Sizes DEF ChannelInv
<1>2. CASE recv_len >= HeaderSize
  <2>1. Held[1][1] \in Sendable /\ Total = Size(Held[1][1])
    BY <1>2, FrontOfBuffer
  <2>2. QED
    BY <1>1, <1>2, <2>1, MessageSizes, Sizes DEF Complete
<1>3. CASE recv_len < HeaderSize
  <2>1. PICK d, B : Framed(B, d) /\ B # <<>> /\ B[1] = Held[1]
    <3>1. /\ Framed(InFlight(Held), Len(delivered)) /\ Held \in Seq(SentByte)
          /\ stream \in Seq(SentByte) /\ unsent \in Seq(SentByte)
      BY DEF ChannelInv, StreamInv, StreamOK
    <3>2. PICK h \in Seq(SentByte) : h = Held
      BY <3>1
    <3>3. Len(h) \in Nat \ {0} /\ Len(stream) \in Nat /\ Len(unsent) \in Nat
      BY <3>1, <3>2, EmptySeq
    <3>4. InFlight(h)[1] = h[1] /\ Len(InFlight(h)) > 0 /\ InFlight(h) \in Seq(SentByte)
      <4>1. /\ InFlight(h) \in Seq(SentByte)
            /\ Len(InFlight(h)) = Len(h) + Len(stream) + Len(unsent)
            /\ \A i \in 1 .. Len(h) : InFlight(h)[i] = h[i]
        BY <3>1, WhereBytesAre
      <4>2. QED
        BY <3>3, <4>1
    <3>5. InFlight(h) # <<>>
      BY <3>4
    <3>6. QED
      BY <3>1, <3>2, <3>4, <3>5, Zenon
  <2>2. Held[1][1] \in Sendable
    BY <2>1, FirstMessage
  <2>3. QED
    BY <1>1, <1>3, <2>2, MessageSizes, Sizes
<1>4. QED
  BY <1>1, <1>2, <1>3, Sizes

\* The channel's step that a step of the reader or the sender is.
LEMMA SenderChannel ==
  ASSUME ChannelInv,
         \/ Connect /\ delivered' = <<>> /\ UNCHANGED <<recv_buf, recv_len, pc>>
         \/ SenderStep(IF msgs = 0 THEN {"register"} ELSE {GradientKind[conn]})
              /\ UNCHANGED readerVars
  PROVE  StreamInv' /\ [Channel!Next]_(Channel!channelVars)
<1>1. CASE Connect /\ delivered' = <<>> /\ UNCHANGED <<recv_buf, recv_len, pc>>
  <2>1. StreamOK(<<>>, 0)' /\ link = "none" /\ link' = "pending" /\ sent' = <<>>
    BY <1>1, ConnectStream DEF Connect
  <2>2. Held' = <<>> /\ Len(delivered') = 0 /\ delivered' \in Seq(Sendable)
    BY <1>1, <2>1 DEF Held
  <2>3. StreamInv'
    BY <2>1, <2>2 DEF StreamInv
  <2>4. Channel!Connect
    BY <1>1, <2>1 DEF Channel!Connect
  <2>5. QED
    BY <2>3, <2>4 DEF Channel!Next
<1>2. CASE /\ SenderStep(IF msgs = 0 THEN {"register"} ELSE {GradientKind[conn]})
           /\ UNCHANGED readerVars
  <2>1. link # "none" /\ conn \in 1 .. MaxConns /\ msgs \in Nat /\ UNCHANGED <<link, delivered>>
    <3>1. link # "none" /\ UNCHANGED <<link, delivered>>
      BY <1>2 DEF SenderStep, StartMessage, WriteSome, SenderCloses, readerVars
    <3>2. QED
      BY <3>1, ByteStreamAssumption DEF ChannelInv, Inv, TypeInv, ByteStreamAssumption
  <2>2. PICK h \in Seq(SentByte), d \in Nat :
          h = Held /\ d = Len(delivered) /\ StreamOK(h, d) /\ delivered \in Seq(Sendable)
    BY <2>1 DEF ChannelInv, StreamInv, StreamOK
  <2>3. Held' = h /\ Len(delivered)' = d /\ delivered' \in Seq(Sendable)
    BY <1>2, <2>1, <2>2 DEF Held, readerVars
  <2>4. /\ StreamOK(h, d)'
        /\ sent' = sent \/ \E m \in Sendable : sent' = Append(sent, m)
    <3>1. ASSUME NEW t \in (IF msgs = 0 THEN {"register"} ELSE {GradientKind[conn]}),
                 StartMessage(t)
          PROVE  StreamOK(h, d)' /\ sent' = sent
      <4>1. t \in Kinds
        BY <2>1, GradientKindAssumption DEF GradientKindAssumption
      <4>2. QED
        BY <2>1, <2>2, <3>1, <4>1, StartMessageStream DEF StartMessage
    <3>2. CASE WriteSome
      BY <2>1, <2>2, <3>2, WriteSomeStream
    <3>3. CASE SenderCloses
      BY <2>2, <3>3, SenderClosesStream DEF SenderCloses
    <3>4. QED
      BY <1>2, <3>1, <3>2, <3>3 DEF SenderStep
  <2>5. StreamInv'
    BY <2>3, <2>4 DEF StreamInv
  <2>6. Channel!Send \/ UNCHANGED Channel!channelVars
    BY <2>1, <2>4 DEF Channel!Send, Channel!channelVars, Messages, Sendable
  <2>7. QED
    BY <2>5, <2>6 DEF Channel!Next
<1>3. QED
  BY <1>1, <1>2

\* A message that is whole at the front is handed over: the next one in order.
LEMMA HandsOver ==
  ASSUME ChannelInv, link = "open", Complete, NEW g,
         g = [i \in 1 .. recv_len - Total |-> recv_buf[i + Total - 1]]
  PROVE  /\ Message \in Sendable
         /\ Len(delivered) < Len(sent) /\ Message = sent[Len(delivered) + 1]
         /\ StreamOK(g, Len(delivered) + 1)
<1>1. PICK h \in Seq(SentByte), d \in Nat :
        h = Held /\ d = Len(delivered) /\ StreamOK(h, d)
  BY DEF ChannelInv, StreamInv, StreamOK
<1>2. PICK m \in Sendable, z \in Nat, l \in Nat :
        /\ m = h[1][1] /\ h # <<>> /\ z = Size(m) /\ z = Total /\ l = recv_len /\ z <= l
        /\ Message = m /\ z > 0
  BY <1>1, FrontOfBuffer, MessageSizes, HeldBytes, Sizes DEF Complete, ChannelInv
<1>3. Len(h) = l /\ \A i \in 1 .. l : h[i] = recv_buf[i - 1]
  BY <1>1, <1>2, HeldBytes DEF ChannelInv
<1>4. PICK f :
        /\ f = SubSeq(h, Size(m) + 1, Len(h)) /\ f \in Seq(SentByte) /\ Len(f) = l - z
        /\ \A i \in 1 .. l - z : f[i] = h[z + i]
  <2>1. z \in 0 .. Len(h) /\ z = Size(m)
    BY <1>2, <1>3
  <2>2. PICK f : f = SubSeq(h, z + 1, Len(h))
    OBVIOUS
  <2>3. f \in Seq(SentByte) /\ Len(f) = Len(h) - z
        /\ \A i \in 1 .. Len(h) - z : f[i] = h[z + i]
    BY <2>1, <2>2, CutParts, Zenon
  <2>4. QED
    BY <1>3, <2>1, <2>2, <2>3, Zenon
<1>5. f = g
  <2>1. g = [i \in 1 .. l - z |-> recv_buf[i + z - 1]]
    BY <1>2
  <2>2. \A i \in 1 .. l - z : f[i] = recv_buf[i + z - 1]
    <3> SUFFICES ASSUME NEW i \in 1 .. l - z
                 PROVE  f[i] = recv_buf[i + z - 1]
      OBVIOUS
    <3>1. z + i \in 1 .. l /\ (z + i) - 1 = i + z - 1
      OBVIOUS
    <3>2. h[z + i] = recv_buf[(z + i) - 1]
      BY <1>3, <3>1
    <3>3. QED
      BY <1>4, <3>1, <3>2
  <2>3. f = [i \in 1 .. l - z |-> f[i]]
    <3>1. f \in [1 .. Len(f) -> SentByte]
      BY <1>4, LenProperties, Zenon
    <3>2. QED
      BY <1>4, <3>1
  <2>4. QED
    BY <2>1, <2>2, <2>3
<1>6. d < Len(sent) /\ sent[d + 1] = m /\ StreamOK(f, d + 1)
  <2>1. Front(h) = m /\ Behind(h) = f
    BY <1>2, <1>4 DEF Front, Behind
  <2>2. Size(Front(h)) <= Len(h) /\ h # <<>> /\ StreamOK(h, d)
    BY <1>1, <1>2, <1>3, <2>1
  <2>3. d < Len(sent) /\ sent[d + 1] = Front(h) /\ StreamOK(Behind(h), d + 1)
    BY <2>2, DeliverStream
  <2>4. QED
    BY <2>1, <2>3
<1>7. QED
  BY <1>1, <1>2, <1>5, <1>6

LEMMA ServerChannel ==
  ASSUME ChannelInv, Inv', ServerStep
  PROVE  StreamInv' /\ [Channel!Next]_(Channel!channelVars)
<1>1. CASE add_worker
  <2>1. /\ link = "pending" /\ link' = "open" /\ recv_len' = 0
        /\ UNCHANGED <<unsent, msgs, closed, stream, sent, recv_buf, delivered>>
    BY <1>1 DEF add_worker, senderVars
  <2>2. Held = <<>> /\ Held' = <<>>
    BY <2>1 DEF Held
  <2>3. StreamOK(<<>>, Len(delivered))
    BY <2>1, <2>2 DEF ChannelInv, StreamInv
  <2>4. StreamInv'
    BY <2>1, <2>2, <2>3 DEF StreamInv, ChannelInv, StreamOK, InFlight, Writing
  <2>5. UNCHANGED Channel!channelVars
    BY <2>1 DEF Channel!channelVars
  <2>6. QED
    BY <2>4, <2>5
<1>2. CASE AccumulateRead
  <2>1. PICK k \in 1 .. RecvBufSize - recv_len :
          /\ k <= Len(stream)
          /\ recv_len' = recv_len + k
          /\ recv_buf' = [i \in DOMAIN recv_buf |->
               IF i \in recv_len .. recv_len + k - 1
               THEN stream[i - recv_len + 1] ELSE recv_buf[i]]
          /\ stream' = SubSeq(stream, k + 1, Len(stream))
    BY <1>2 DEF AccumulateRead
  <2>2. /\ link = "open" /\ link' = "open"
        /\ UNCHANGED <<unsent, msgs, closed, sent, delivered>>
    BY <1>2 DEF AccumulateRead, senderVars
  <2>3. PICK h \in Seq(SentByte), s \in Seq(SentByte) :
          h = Held /\ s = stream /\ StreamOK(h, Len(delivered))
    BY <2>2 DEF ChannelInv, StreamInv, StreamOK
  <2>4. PICK l \in Nat :
          /\ l = recv_len /\ l + k <= RecvBufSize /\ Len(h) = l /\ k \in 0 .. Len(s)
          /\ \A i \in 1 .. l : h[i] = recv_buf[i - 1]
    BY <2>1, <2>2, <2>3, HeldBytes, Sizes DEF ChannelInv
  <2>5. PICK g :
          /\ g = h \o SubSeq(s, 1, k) /\ g \in Seq(SentByte) /\ Len(g) = l + k
          /\ \A i \in 1 .. l : g[i] = h[i]
          /\ \A i \in 1 .. k : g[l + i] = s[i]
    <3>1. PICK p :
            /\ p = SubSeq(s, 1, k) /\ p \in Seq(SentByte) /\ Len(p) = k
            /\ \A i \in 1 .. k : p[i] = s[i]
      <4>1. k \in 0 .. Len(s)
        BY <2>4
      <4>2. /\ SubSeq(s, 1, k) \in Seq(SentByte) /\ Len(SubSeq(s, 1, k)) = k
            /\ \A i \in 1 .. k : SubSeq(s, 1, k)[i] = s[i]
        BY <4>1, CutParts, Zenon
      <4>3. QED
        BY <4>2, Zenon
    <3>2. PICK g : g = h \o p
      OBVIOUS
    <3>3. /\ g \in Seq(SentByte) /\ Len(g) = Len(h) + Len(p)
          /\ \A i \in 1 .. Len(h) : g[i] = h[i]
          /\ \A i \in 1 .. Len(p) : g[Len(h) + i] = p[i]
      BY <3>1, <3>2, ConcatParts
    <3>4. Len(h) = l /\ Len(p) = k /\ g = h \o SubSeq(s, 1, k)
      BY <2>4, <3>1, <3>2, Zenon
    <3>5. \A i \in 1 .. k : g[l + i] = s[i]
      BY <3>1, <3>3, <3>4
    <3>6. QED
      BY <3>3, <3>4, <3>5, Zenon
  <2>6. Held' = g
    <3>1. \A i \in 1 .. l + k : g[i] = recv_buf'[i - 1]
      <4> SUFFICES ASSUME NEW i \in 1 .. l + k
                   PROVE  g[i] = recv_buf'[i - 1]
        OBVIOUS
      <4>1. i - 1 \in DOMAIN recv_buf
        BY <2>4, Sizes DEF ChannelInv, Inv, TypeInv
      <4>2. CASE i <= l
        <5>1. recv_buf'[i - 1] = recv_buf[i - 1]
          BY <2>1, <2>4, <4>1, <4>2
        <5>2. QED
          BY <2>4, <2>5, <4>2, <5>1
      <4>3. CASE i > l
        <5> DEFINE j == i - l
        <5>1. j \in 1 .. k /\ i = l + j /\ (i - 1) - l + 1 = j /\ i - 1 \in l .. l + k - 1
          BY <4>3
        <5> HIDE DEF j
        <5>2. recv_buf'[i - 1] = s[j]
          BY <2>1, <2>3, <2>4, <4>1, <5>1
        <5>3. QED
          BY <2>5, <5>1, <5>2
      <4>4. QED
        BY <4>2, <4>3
    <3>2. Held' = [i \in 1 .. l + k |-> recv_buf'[i - 1]]
      BY <2>1, <2>2, <2>4 DEF Held
    <3>3. g = [i \in 1 .. l + k |-> g[i]]
      BY <2>5
    <3>4. QED
      BY <3>1, <3>2, <3>3
  <2>7. StreamOK(g, Len(delivered))'
    <3>1. PICK d : d = Len(delivered)
      OBVIOUS
    <3>2. k \in 1 .. Len(stream) /\ g = h \o SubSeq(stream, 1, k) /\ StreamOK(h, d)
      BY <2>1, <2>3, <2>4, <2>5, <3>1
    <3>3. StreamOK(g, d)'
      BY <2>1, <2>2, <3>2, ReadStream
    <3>4. QED
      BY <2>2, <3>1, <3>3
  <2>8. StreamInv'
    BY <2>2, <2>6, <2>7 DEF StreamInv, ChannelInv
  <2>9. UNCHANGED Channel!channelVars
    BY <2>2 DEF Channel!channelVars
  <2>10. QED
    BY <2>8, <2>9
<1>3. CASE ReadFails
  <2>1. /\ link = "open" /\ pc = "select" /\ link' = "none"
        /\ UNCHANGED <<delivered, sent>>
    BY <1>3 DEF ReadFails, handle_disconnect
  <2>2. recv_len # RecvBufSize /\ ~ Complete
    <3>1. recv_len \in 0 .. RecvBufSize - 1
      BY <2>1, RoomWhileIncomplete DEF ReadHasRoom, ChannelInv
    <3>2. QED
      BY <2>1, <3>1, Sizes DEF ChannelInv, Inv, BufferInv
  <2>3. stream = <<>> /\ closed
    BY <1>3, <2>2 DEF ReadFails
  <2>4. Len(sent) = Len(delivered)
    <3>1. PICK h \in Seq(SentByte), d \in Nat :
            h = Held /\ d = Len(delivered) /\ StreamOK(h, d)
      BY <2>1 DEF ChannelInv, StreamInv, StreamOK
    <3>2. h # <<>> => Len(h) < Size(h[1][1])
      BY <2>1, <2>2, <3>1, IncompleteFront
    <3>3. QED
      BY <2>3, <3>1, <3>2, CaughtUp
  <2>5. Channel!Hangup
    BY <2>1, <2>4 DEF Channel!Hangup, Channel!Undelivered, ChannelInv, StreamInv
  <2>6. StreamInv'
    BY <2>1 DEF StreamInv, ChannelInv
  <2>7. QED
    BY <2>5, <2>6 DEF Channel!Next
<1>4. ASSUME Dispatch \/ DispatchRefused
      PROVE  StreamInv' /\ [Channel!Next]_(Channel!channelVars)
  <2>1. /\ link = "open" /\ Complete /\ link' \in {"open", "none"}
        /\ delivered' = Append(delivered, Message) /\ UNCHANGED sent
    BY <1>4 DEF Dispatch, DispatchRefused, ChannelInv, Inv, BufferInv, streamVars
  <2>2. PICK g : g = [i \in 1 .. recv_len - Total |-> recv_buf[i + Total - 1]]
    OBVIOUS
  <2>3. /\ Message \in Sendable
        /\ Len(delivered) < Len(sent) /\ Message = sent[Len(delivered) + 1]
        /\ StreamOK(g, Len(delivered) + 1)
    BY <2>1, <2>2, HandsOver
  <2>4. delivered' \in Seq(Sendable) /\ Len(delivered') = Len(delivered) + 1
    BY <2>1, <2>3 DEF ChannelInv, StreamInv
  <2>5. Channel!Deliver
    BY <2>1, <2>3 DEF Channel!Deliver, Channel!Undelivered, Channel!NextMessage
  <2>6. ASSUME link' # "none"
        PROVE  StreamOK(Held, Len(delivered))'
    <3>1. Dispatch
      BY <1>4, <2>6 DEF DispatchRefused
    <3>2. Held' = g
      <4>1. PICK l \in Nat, z \in Nat :
              l = recv_len /\ z = Total /\ z <= l /\ l <= RecvBufSize
        <5>1. Total \in HeaderSize .. RecvBufSize
          BY TotalFits DEF ChannelInv, Inv, TypeInv
        <5>2. recv_len \in 0 .. RecvBufSize /\ Total <= recv_len
          BY <2>1, HeldBytes DEF Complete, ChannelInv
        <5>3. recv_len \in Nat /\ Total \in Nat /\ recv_len <= RecvBufSize
          BY <5>1, <5>2, Sizes
        <5>4. QED
          BY <5>2, <5>3, Zenon
      <4>2. recv_len' = l - z /\ link' = "open"
        BY <2>1, <2>6, <3>1, <4>1 DEF Dispatch, Consume
      <4>3. \A i \in 1 .. l - z : recv_buf'[i - 1] = recv_buf[i + z - 1]
        <5> SUFFICES ASSUME NEW i \in 1 .. l - z
                     PROVE  recv_buf'[i - 1] = recv_buf[i + z - 1]
          OBVIOUS
        <5>1. i - 1 \in DOMAIN recv_buf /\ i - 1 < l - z /\ (i - 1) + z = i + z - 1
          BY <4>1, Sizes DEF ChannelInv, Inv, TypeInv
        <5>2. recv_buf'[i - 1] = recv_buf[(i - 1) + z]
          BY <3>1, <4>1, <5>1 DEF Dispatch, Consume
        <5>3. QED
          BY <5>1, <5>2
      <4>4. Held' = [i \in 1 .. l - z |-> recv_buf'[i - 1]]
        BY <4>2 DEF Held
      <4>5. QED
        BY <2>2, <4>1, <4>3, <4>4
    <3>3. UNCHANGED <<stream, unsent, msgs, closed, sent>>
      BY <3>1 DEF Dispatch, streamVars, senderVars
    <3>4. QED
      BY <2>3, <2>4, <3>2, <3>3 DEF StreamOK, InFlight, Writing
  <2>7. StreamInv'
    BY <2>4, <2>6 DEF StreamInv
  <2>8. QED
    BY <2>5, <2>7 DEF Channel!Next
<1>5. QED
  BY <1>1, <1>2, <1>3, <1>4 DEF ServerStep

LEMMA InitChannel == Init => StreamInv /\ Channel!Init
  BY DEF Init, StreamInit, StreamInv, Channel!Init

\* However the stream is cut into reads and whatever the sizes are, the handlers
\* see the messages of a connection whole, once and in order, and a connection is
\* given up only with nothing left to deliver or by a handler.
THEOREM ReadsImplementChannel == Spec => ImplementsChannel
<1>1. Init => ChannelInv /\ Channel!Init
  BY InitInv, InitChannel DEF ChannelInv
<1>2. ChannelInv /\ [Next]_vars => ChannelInv' /\ [Channel!Next]_(Channel!channelVars)
  <2> SUFFICES ASSUME ChannelInv, [Next]_vars
               PROVE  ChannelInv' /\ [Channel!Next]_(Channel!channelVars)
    OBVIOUS
  <2>1. Inv'
    BY SenderInv, ServerInv, StutterInv DEF Next, ChannelInv
  <2>2. CASE Next
    BY <2>1, <2>2, SenderChannel, ServerChannel DEF Next, ChannelInv
  <2>3. CASE UNCHANGED vars
    <3>1. UNCHANGED <<stream, unsent, msgs, closed, sent, link, delivered, recv_len, recv_buf>>
      BY <2>3 DEF vars, streamVars, senderVars, readerVars
    <3>2. StreamInv'
      BY <3>1 DEF ChannelInv, StreamInv, StreamOK, InFlight, Writing, Held
    <3>3. QED
      BY <2>1, <3>1, <3>2 DEF ChannelInv, Channel!channelVars
  <2>4. QED
    BY <2>2, <2>3
<1>3. QED
  BY <1>1, <1>2, PTL DEF Spec, ImplementsChannel, Channel!Spec
=============================================================================
