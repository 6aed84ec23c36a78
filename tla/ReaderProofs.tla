---------------------------- MODULE ReaderProofs ----------------------------
(***************************************************************************)
(* A worker acts on the messages the server sent, whole, once and in       *)
(* order: for every header size, payload sizes, draining buffer, sequence  *)
(* of messages and way to cut the stream into reads.                       *)
(***************************************************************************)
EXTENDS BlockingReader, StreamProofs

TypeInv ==
  /\ conn \in 0 .. MaxConns /\ msgs \in 0 .. MaxMsgs
  /\ link \in {"none", "pending", "open"}
  /\ link # "none" => conn > 0
  /\ want \in Nat /\ left \in Nat
  /\ delivered \in Seq(Sendable)

\* read_all was called for the header, or for the payload of its branch.
AsksForMessage ==
  link = "open" =>
    \/ Len(got) + want = HeaderSize /\ left = 0
    \/ /\ Len(got) >= HeaderSize /\ Len(got) + want > HeaderSize
       /\ Len(got) + want + left = HeaderSize + Payload(Front(got))

\* What has been read of the message that comes.
Held == IF link = "open" THEN got ELSE <<>>

\* What the worker acted on and what is under way is what was sent.
StreamInv == link # "none" => StreamOK(Held, Len(delivered))

Inv == TypeInv /\ AsksForMessage /\ StreamInv

-----------------------------------------------------------------------------

LEMMA InitInv == Init => Inv /\ Channel!Init
  BY ByteStreamAssumption
     DEF Init, StreamInit, Inv, TypeInv, AsksForMessage, StreamInv, Channel!Init,
         ByteStreamAssumption

\* What is read is the start of the next message.
LEMMA FrontRead ==
  ASSUME Inv, link = "open", got # <<>>
  PROVE  /\ got \in Seq(SentByte) /\ Len(got) \in Nat \ {0}
         /\ Front(got) \in Sendable
         /\ \A j \in 1 .. Size(Front(got)) : j <= Len(got) => got[j] = <<Front(got), j>>
<1>1. PICK d \in Nat, h, B \in Seq(SentByte) :
        /\ d = Len(delivered) /\ h = got /\ B = InFlight(h) /\ Framed(B, d)
        /\ stream \in Seq(SentByte) /\ unsent \in Seq(SentByte)
  BY DEF Inv, TypeInv, StreamInv, StreamOK, Framed, Held
<1>2. Len(h) \in Nat \ {0} /\ Len(stream) \in Nat /\ Len(unsent) \in Nat
  BY <1>1, EmptySeq
<1>3. /\ Len(B) = Len(h) + Len(stream) + Len(unsent)
      /\ \A i \in 1 .. Len(h) : B[i] = h[i]
  BY <1>1, WhereBytesAre
<1>4. Len(B) >= Len(h) /\ B # <<>> /\ B[1] = h[1]
  BY <1>2, <1>3
<1>5. /\ B[1][1] \in Sendable
      /\ \A j \in 1 .. Size(B[1][1]) : j <= Len(B) => B[j] = <<B[1][1], j>>
  BY <1>1, <1>4, FirstMessage
<1>6. PICK m \in Sendable, z \in Nat : m = B[1][1] /\ m = Front(h) /\ z = Size(m)
  BY <1>4, <1>5, MessageSizes DEF Front
<1>7. \A j \in 1 .. z : j <= Len(h) => h[j] = <<m, j>>
  <2>1. \A j \in 1 .. z : j <= Len(h) => j <= Len(B) /\ B[j] = h[j]
    BY <1>2, <1>3, <1>4
  <2>2. QED
    BY <2>1, <1>5, <1>6
<1>8. QED
  BY <1>1, <1>2, <1>6, <1>7

\* What a branch reads is what the message has, but for a misfit.
LEMMA PayloadSizes ==
  ASSUME NEW m \in Sendable
  PROVE  /\ Payload(m) \in Nat /\ PayloadSize[m.type] \in Nat
         /\ m \notin Misfits => Payload(m) = PayloadSize[m.type]
<1>1. m.type \in Kinds
  BY DEF Sendable
<1>2. PayloadSize[m.type] \in Nat
  BY <1>1, ByteStreamAssumption DEF ByteStreamAssumption, Kinds
<1>3. QED
  BY <1>2, DoneAssumption DEF DoneAssumption, Payload, Misfits, Messages, Sendable

\* The header that was read is the one of that message.
LEMMA HeaderRead ==
  ASSUME Inv, link = "open", Len(got) >= HeaderSize
  PROVE  got # <<>> /\ HeaderOf = Front(got) /\ HeaderOf # Garbled
<1>1. HeaderSize \in Nat \ {0}
  BY ByteStreamAssumption DEF ByteStreamAssumption
<1>2. got # <<>>
  BY <1>1
<1>3. PICK m \in Sendable, z \in Nat, h \in Seq(SentByte) :
        /\ m = Front(got) /\ z = Size(m) /\ h = got /\ Len(h) \in Nat
        /\ \A j \in 1 .. z : j <= Len(h) => h[j] = <<m, j>>
        /\ z >= HeaderSize /\ HeaderSize <= Len(h)
  BY <1>2, FrontRead, MessageSizes
<1>4. PICK b \in Seq(SentByte) :
        b = Bytes(m) /\ Len(b) = z /\ \A j \in 1 .. z : b[j] = <<m, j>>
  BY <1>3, BytesOf
<1>5. SubSeq(h, 1, HeaderSize) = SubSeq(b, 1, HeaderSize)
  <2>1. HeaderSize \in 0 .. Len(h) /\ HeaderSize \in 0 .. Len(b)
    BY <1>1, <1>3, <1>4
  <2>2. PICK p, q \in Seq(SentByte) :
          /\ p = SubSeq(h, 1, HeaderSize) /\ q = SubSeq(b, 1, HeaderSize)
          /\ Len(p) = HeaderSize /\ Len(q) = HeaderSize
          /\ \A i \in 1 .. HeaderSize : p[i] = h[i]
          /\ \A i \in 1 .. HeaderSize : q[i] = b[i]
    BY <2>1, CutParts, Zenon
  <2>3. \A i \in 1 .. HeaderSize : h[i] = b[i]
    <3>1. \A i \in 1 .. HeaderSize : i \in 1 .. z /\ i <= Len(h)
      BY <1>1, <1>3
    <3>2. QED
      BY <1>3, <1>4, <3>1
  <2>4. \A i \in 1 .. Len(p) : p[i] = q[i]
    BY <2>2, <2>3
  <2>5. QED
    BY <2>2, <2>4, SeqEqual
<1>6. got[1][1] = m
  BY <1>3 DEF Front
<1>7. HeaderOf = m
  BY <1>3, <1>4, <1>5, <1>6 DEF HeaderOf
<1>8. m # Garbled
  BY <1>3 DEF Sendable, Garbled
<1>9. QED
  BY <1>2, <1>3, <1>7, <1>8

\* The steps of the server.
LEMMA SenderSteps ==
  ASSUME Inv,
         \/ Connect /\ delivered' = <<>> /\ UNCHANGED <<got, want, left>>
         \/ SenderStep(Kinds) /\ UNCHANGED readerVars
  PROVE  Inv' /\ [Channel!Next]_(Channel!channelVars)
<1> USE DEF Inv
<1>1. CASE Connect /\ delivered' = <<>> /\ UNCHANGED <<got, want, left>>
  <2>1. StreamOK(<<>>, 0)' /\ link = "none" /\ link' = "pending" /\ sent' = <<>>
    BY <1>1, ConnectStream DEF Connect
  <2>2. Held' = <<>> /\ Len(delivered') = 0
    BY <1>1, <2>1 DEF Held
  <2>3. StreamInv' /\ AsksForMessage'
    BY <2>1, <2>2 DEF StreamInv, AsksForMessage
  <2>4. TypeInv'
    BY <1>1, ByteStreamAssumption DEF TypeInv, Connect, ByteStreamAssumption
  <2>5. Channel!Connect
    BY <1>1, <2>1 DEF Channel!Connect
  <2>6. QED
    BY <2>3, <2>4, <2>5 DEF Channel!Next
<1>2. CASE SenderStep(Kinds) /\ UNCHANGED readerVars
  <2>1. link # "none" /\ UNCHANGED <<conn, link, delivered, got, want, left>>
    BY <1>2 DEF SenderStep, StartMessage, WriteSome, SenderCloses, readerVars
  <2>2. conn \in 1 .. MaxConns /\ msgs \in Nat
    BY <2>1, ByteStreamAssumption DEF TypeInv, ByteStreamAssumption
  <2>3. PICK h \in Seq(SentByte), d \in Nat :
          h = Held /\ d = Len(delivered) /\ StreamOK(h, d)
    BY <2>1 DEF TypeInv, StreamInv, StreamOK
  <2>4. Held' = h /\ Len(delivered)' = d
    BY <2>1, <2>3 DEF Held
  <2>5. /\ StreamOK(h, d)' /\ msgs' \in 0 .. MaxMsgs
        /\ sent' = sent \/ \E m \in Sendable : sent' = Append(sent, m)
    <3>1. ASSUME NEW t \in Kinds, StartMessage(t)
          PROVE  StreamOK(h, d)' /\ sent' = sent /\ msgs' \in 0 .. MaxMsgs
      <4>1. StreamOK(h, d)'
        BY <2>2, <2>3, <3>1, StartMessageStream
      <4>2. QED
        BY <2>2, <3>1, <4>1, ByteStreamAssumption DEF StartMessage, ByteStreamAssumption
    <3>2. CASE WriteSome
      <4>1. /\ StreamOK(h, d)'
            /\ sent' = sent \/ \E m \in Sendable : sent' = Append(sent, m)
        BY <2>2, <2>3, <3>2, WriteSomeStream
      <4>2. QED
        BY <3>2, <4>1 DEF WriteSome, TypeInv
    <3>3. CASE SenderCloses
      BY <2>3, <3>3, SenderClosesStream DEF SenderCloses, TypeInv
    <3>4. QED
      BY <1>2, <3>1, <3>2, <3>3 DEF SenderStep
  <2>6. StreamInv' /\ TypeInv' /\ AsksForMessage'
    BY <2>1, <2>4, <2>5 DEF StreamInv, TypeInv, AsksForMessage
  <2>7. Channel!Send \/ UNCHANGED Channel!channelVars
    BY <2>1, <2>5 DEF Channel!Send, Channel!channelVars, Messages, Sendable
  <2>8. QED
    BY <2>6, <2>7 DEF Channel!Next
<1>3. QED
  BY <1>1, <1>2

\* A branch that is done has read one whole message, and no byte of the next.
LEMMA MessageRead ==
  ASSUME Inv, PayloadRead, HeaderOf \notin Misfits
  PROVE  /\ Message \in Sendable
         /\ Message \notin Misfits
         /\ Len(delivered) < Len(sent) /\ Message = sent[Len(delivered) + 1]
         /\ StreamOK(<<>>, Len(delivered) + 1)
<1> USE DEF Inv
<1>1. HeaderSize \in Nat \ {0}
  BY ByteStreamAssumption DEF ByteStreamAssumption
<1>2. PICK h \in Seq(SentByte), d \in Nat :
        h = got /\ d = Len(delivered) /\ StreamOK(h, d) /\ link = "open"
  BY DEF PayloadRead, TypeInv, StreamInv, StreamOK, Held
<1>3. Len(h) \in Nat /\ Len(h) >= HeaderSize
  BY <1>1, <1>2 DEF PayloadRead, AsksForMessage, TypeInv
<1>4. h # <<>> /\ HeaderOf = Front(h) /\ HeaderOf # Garbled
  BY <1>2, <1>3, HeaderRead
<1>5. PICK m \in Sendable, z \in Nat :
        /\ m = Front(h) /\ z = Size(m) /\ z = HeaderSize + PayloadSize[m.type]
        /\ \A j \in 1 .. z : j <= Len(h) => h[j] = <<m, j>>
  BY <1>2, <1>4, FrontRead, MessageSizes DEF Size
<1>6. Len(h) = z
  <2>1. PayloadSize[m.type] \in Nat /\ Payload(Front(h)) = PayloadSize[m.type]
    BY <1>4, <1>5, PayloadSizes
  <2>2. want = 0 /\ left = 0 /\ (Len(h) > HeaderSize \/ PayloadSize[m.type] = 0)
    BY <1>2, <1>4, <1>5, <2>1 DEF PayloadRead
  <2>3. CASE Len(h) = HeaderSize
    BY <1>1, <1>5, <2>1, <2>2, <2>3
  <2>4. CASE Len(h) > HeaderSize
    <3>1. Len(h) + want + left = HeaderSize + Payload(Front(h))
      BY <1>1, <1>2, <1>3, <2>2, <2>4 DEF AsksForMessage
    <3>2. QED
      BY <1>3, <1>5, <2>1, <2>2, <3>1
  <2>5. QED
    BY <1>1, <1>3, <2>3, <2>4
<1>7. PICK b \in Seq(SentByte) :
        b = Bytes(m) /\ Len(b) = z /\ \A j \in 1 .. z : b[j] = <<m, j>>
  BY <1>5, BytesOf
<1>8. h = b
  <2>1. \A j \in 1 .. z : h[j] = b[j]
    <3>1. \A j \in 1 .. z : j <= Len(h)
      BY <1>5, <1>6
    <3>2. \A j \in 1 .. z : h[j] = <<m, j>> /\ b[j] = <<m, j>>
      BY <1>5, <1>7, <3>1, Zenon
    <3>3. QED
      BY <3>2, Zenon
  <2>2. QED
    BY <1>6, <1>7, <2>1, SeqEqual
<1>9. Message = m /\ m \notin Misfits
  BY <1>2, <1>4, <1>5, <1>7, <1>8 DEF Message
<1>10. Behind(h) = <<>>
  <2>1. Len(h) \in 0 .. Len(h)
    BY <1>3
  <2>2. PICK f \in Seq(SentByte) :
          f = SubSeq(h, Len(h) + 1, Len(h)) /\ Len(f) = Len(h) - Len(h)
    BY <2>1, CutParts, Zenon
  <2>3. f = <<>>
    BY <1>3, <2>2, EmptySeq
  <2>4. QED
    BY <1>5, <1>6, <2>2, <2>3 DEF Behind
<1>11. Size(Front(h)) <= Len(h)
  BY <1>3, <1>5, <1>6
<1>12. /\ d < Len(sent) /\ sent[d + 1] = Front(h)
       /\ StreamOK(Behind(h), d + 1)
  BY <1>2, <1>4, <1>11, DeliverStream
<1>13. QED
  BY <1>2, <1>5, <1>9, <1>10, <1>12

\* The steps of the worker.
LEMMA WorkerSteps ==
  ASSUME Inv, WorkerStep
  PROVE  Inv' /\ [Channel!Next]_(Channel!channelVars)
<1> USE DEF Inv
<1>1. HeaderSize \in Nat \ {0}
  BY ByteStreamAssumption DEF ByteStreamAssumption
<1>2. CASE Enter
  <2>1. /\ link = "pending" /\ link' = "open" /\ got' = <<>> /\ want' = HeaderSize
        /\ left' = 0 /\ UNCHANGED <<conn, msgs, unsent, closed, stream, sent, delivered>>
    BY <1>2 DEF Enter, NextHeader, senderVars
  <2>2. Held = <<>> /\ Held' = <<>>
    BY <2>1 DEF Held
  <2>3. StreamOK(<<>>, Len(delivered))
    BY <2>1, <2>2 DEF StreamInv
  <2>4. StreamInv'
    BY <2>1, <2>2, <2>3 DEF StreamInv, StreamOK, InFlight, Writing
  <2>5. AsksForMessage'
    BY <1>1, <2>1 DEF AsksForMessage
  <2>6. TypeInv'
    BY <1>1, <2>1 DEF TypeInv
  <2>7. UNCHANGED Channel!channelVars
    BY <2>1 DEF Channel!channelVars
  <2>8. QED
    BY <2>4, <2>5, <2>6, <2>7
<1>3. CASE ReadSome
  <2>1. PICK k \in 1 .. want :
          /\ k <= Len(stream) /\ got' = got \o SubSeq(stream, 1, k) /\ want' = want - k
          /\ stream' = SubSeq(stream, k + 1, Len(stream))
    BY <1>3 DEF ReadSome
  <2>2. /\ link = "open" /\ link' = "open"
        /\ UNCHANGED <<conn, unsent, msgs, closed, sent, left, delivered>>
    BY <1>3 DEF ReadSome, senderVars
  <2>3. PICK h \in Seq(SentByte), s \in Seq(SentByte), d \in Nat :
          h = got /\ s = stream /\ d = Len(delivered) /\ StreamOK(h, d)
    BY <2>2 DEF StreamInv, StreamOK, Held, TypeInv
  <2>4. k \in 0 .. Len(s) /\ k \in 1 .. Len(s)
    BY <2>1, <2>3 DEF TypeInv
  <2>5. PICK g \in Seq(SentByte) :
          /\ g = h \o SubSeq(s, 1, k) /\ Len(g) = Len(h) + k
          /\ \A i \in 1 .. Len(h) : g[i] = h[i]
    <3>1. PICK p \in Seq(SentByte) : p = SubSeq(s, 1, k) /\ Len(p) = k
      BY <2>4, CutParts, Zenon
    <3>2. PICK g \in Seq(SentByte) :
            g = h \o p /\ Len(g) = Len(h) + Len(p) /\ \A i \in 1 .. Len(h) : g[i] = h[i]
      BY ConcatParts, Zenon
    <3>3. g = h \o SubSeq(s, 1, k) /\ Len(g) = Len(h) + k
      BY <3>1, <3>2
    <3>4. QED
      BY <3>2, <3>3, Zenon
  <2>6. got' = g
    BY <2>1, <2>3, <2>5
  <2>7. StreamOK(g, d)'
    <3>1. k \in 1 .. Len(stream) /\ g = h \o SubSeq(stream, 1, k)
      BY <2>3, <2>4, <2>5
    <3>2. QED
      BY <2>1, <2>2, <2>3, <3>1, ReadStream
  <2>8. StreamInv'
    BY <2>2, <2>3, <2>6, <2>7 DEF StreamInv, Held
  <2>9. AsksForMessage'
    <3>1. PICK l \in Nat : l = Len(got) /\ Len(got') = l + k
      BY <2>3, <2>5, <2>6
    <3>2. /\ k \in Nat /\ want \in Nat /\ want' \in Nat /\ left \in Nat
          /\ want' + k = want /\ left' = left
      BY <2>1, <2>2 DEF TypeInv
    <3>3. Len(got') + want' = l + want
      <4>1. PICK w, v, j \in Nat : w = want /\ v = want' /\ j = k /\ v + j = w
        BY <3>2
      <4>2. v + j = w
        BY <4>1, Zenon
      <4>3. l + j + v = l + w
        BY <4>2
      <4>4. QED
        BY <3>1, <4>1, <4>3
    <3>4. CASE l + want = HeaderSize /\ left = 0
      <4>1. Len(got') + want' = HeaderSize /\ left' = 0
        BY <3>2, <3>4, <3>3
      <4>2. QED
        BY <4>1 DEF AsksForMessage
    <3>5. CASE /\ l >= HeaderSize /\ l + want > HeaderSize
               /\ l + want + left = HeaderSize + Payload(Front(got))
      <4>1. Front(got') = Front(got)
        <5>1. got'[1] = got[1]
          BY <2>3, <2>5, <2>6, <3>1, <3>5, <1>1
        <5>2. QED
          BY <5>1 DEF Front
      <4>2. Len(got') >= HeaderSize /\ Len(got') + want' > HeaderSize
        BY <3>1, <3>2, <3>5, <3>3, <1>1
      <4>3. Len(got') + want' + left' = HeaderSize + Payload(Front(got'))
        BY <3>2, <3>5, <3>3, <4>1
      <4>4. QED
        BY <4>2, <4>3 DEF AsksForMessage
    <3>6. QED
      BY <2>2, <3>1, <3>4, <3>5 DEF AsksForMessage
  <2>10. TypeInv'
    BY <2>1, <2>2 DEF TypeInv
  <2>11. UNCHANGED Channel!channelVars
    BY <2>2 DEF Channel!channelVars
  <2>12. QED
    BY <2>8, <2>9, <2>10, <2>11
<1>4. CASE ReadFails
  <2>1. /\ link = "open" /\ link' = "none" /\ want > 0 /\ stream = <<>> /\ closed
        /\ want' = 0 /\ left' = 0 /\ UNCHANGED <<conn, msgs, delivered, sent>>
    BY <1>4 DEF ReadFails, Close
  <2>2. PICK h \in Seq(SentByte), d \in Nat :
          h = got /\ d = Len(delivered) /\ StreamOK(h, d)
    BY <2>1 DEF StreamInv, StreamOK, Held, TypeInv
  <2>3. h # <<>> /\ Front(h) \notin Misfits => Len(h) < Size(Front(h))
    <3>1. SUFFICES ASSUME h # <<>>, Front(h) \notin Misfits
                   PROVE  Len(h) < Size(Front(h))
      OBVIOUS
    <3>2. Front(h) \in Sendable /\ Len(h) \in Nat
      BY <2>1, <2>2, <3>1, FrontRead
    <3>3. PICK z \in Nat :
            z = Size(Front(h)) /\ z >= HeaderSize /\ z = HeaderSize + Payload(Front(h))
      BY <3>1, <3>2, MessageSizes, PayloadSizes DEF Size
    <3>4. QED
      BY <2>1, <2>2, <3>2, <3>3, <1>1 DEF AsksForMessage, TypeInv
  <2>4. d < Len(sent) => sent[d + 1] \in Misfits
    <3>1. SUFFICES ASSUME d < Len(sent)
                   PROVE  sent[d + 1] \in Misfits
      OBVIOUS
    <3>2. h # <<>> /\ (h # <<>> => ~ (Len(h) < Size(h[1][1])))
      <4>1. (h # <<>> => Len(h) < Size(h[1][1])) => Len(sent) = d
        BY <2>1, <2>2, CaughtUp
      <4>2. QED
        BY <2>2, <3>1, <4>1
    <3>3. Front(h) \in Misfits
      BY <2>3, <3>2 DEF Front
    <3>4. sent[d + 1] = Front(h)
      BY <2>2, <3>1, <3>2, NextSent
    <3>5. QED
      BY <3>3, <3>4
  <2>5. Channel!Hangup
    BY <2>1, <2>2, <2>4 DEF Channel!Hangup, Channel!Undelivered, Channel!NextMessage
  <2>6. Inv'
    BY <2>1 DEF TypeInv, AsksForMessage, StreamInv
  <2>7. QED
    BY <2>5, <2>6 DEF Channel!Next
<1>5. CASE ReadOn
  <2>1. /\ link = "open" /\ want = 0
        /\ UNCHANGED <<conn, link, msgs, unsent, closed, stream, sent, got, delivered>>
    BY <1>5 DEF ReadOn, streamVars, senderVars
  <2>2. PICK l \in Nat : l = Len(got) /\ l >= HeaderSize
    <3>1. got \in Seq(SentByte)
      BY <2>1 DEF StreamInv, StreamOK, Held
    <3>2. QED
      BY <2>1, <3>1, <1>1 DEF AsksForMessage, TypeInv
  <2>3. got # <<>> /\ HeaderOf = Front(got)
    BY <2>1, <2>2, HeaderRead
  <2>4. PICK m \in Sendable, p \in Nat :
          m = HeaderOf /\ p = Payload(m)
    <3>1. HeaderOf \in Sendable
      BY <2>1, <2>3, FrontRead
    <3>2. QED
      BY <3>1, PayloadSizes
  <2>5. PICK rest \in Nat :
          /\ rest = IF l = HeaderSize THEN p ELSE left
          /\ rest > 0 /\ want' = Chunk(m, rest) /\ left' = rest - want'
    BY <1>5, <2>2, <2>4 DEF ReadOn, TypeInv
  <2>6. want' \in 1 .. rest
    <3>1. (want' = DrainSize /\ rest > DrainSize) \/ want' = rest
      BY <2>5 DEF Chunk
    <3>2. QED
      BY <2>5, <3>1, DrainSizeAssumption DEF DrainSizeAssumption
  <2>7. l + want' > HeaderSize /\ l + want' + left' = HeaderSize + p
    <3>1. l + rest = HeaderSize + p
      BY <2>1, <2>2, <2>3, <2>4, <2>5, <1>1 DEF AsksForMessage, TypeInv
    <3>2. QED
      BY <2>2, <2>5, <2>6, <3>1, <1>1
  <2>8. AsksForMessage'
    BY <2>1, <2>2, <2>3, <2>4, <2>7 DEF AsksForMessage, Front
  <2>9. TypeInv'
    BY <2>1, <2>5, <2>6 DEF TypeInv
  <2>10. StreamInv'
    BY <2>1 DEF StreamInv, StreamOK, Held, InFlight, Writing
  <2>11. UNCHANGED Channel!channelVars
    BY <2>1 DEF Channel!channelVars
  <2>12. QED
    BY <2>8, <2>9, <2>10, <2>11
<1>6. CASE PayloadRead /\ HeaderOf \notin Misfits
  <2>1. /\ Message \in Sendable /\ Message \notin Misfits
        /\ Len(delivered) < Len(sent) /\ Message = sent[Len(delivered) + 1]
        /\ StreamOK(<<>>, Len(delivered) + 1)
    BY <1>6, MessageRead
  <2>2. link = "open" /\ delivered' = Append(delivered, Message) /\ UNCHANGED <<conn, msgs, sent>>
    BY <1>6 DEF PayloadRead, Close, streamVars, senderVars
  <2>3. delivered' \in Seq(Sendable) /\ Len(delivered') = Len(delivered) + 1
    BY <2>1, <2>2 DEF TypeInv
  <2>4. Channel!Deliver
    BY <1>6, <2>1, <2>2 DEF PayloadRead, Close, streamVars, Channel!Deliver, Channel!Undelivered,
              Channel!NextMessage
  <2>5. CASE Close
    <3>1. link' = "none" /\ want' = 0 /\ left' = 0
      BY <2>5 DEF Close
    <3>2. Inv'
      BY <2>2, <2>3, <3>1 DEF TypeInv, AsksForMessage, StreamInv
    <3>3. QED
      BY <2>4, <3>2 DEF Channel!Next
  <2>6. CASE NextHeader /\ UNCHANGED streamVars
    <3>1. /\ got' = <<>> /\ want' = HeaderSize /\ left' = 0
          /\ UNCHANGED <<conn, link, msgs, unsent, closed, stream, sent>>
      BY <2>6 DEF NextHeader, streamVars, senderVars
    <3>2. StreamInv'
      BY <2>1, <2>2, <2>3, <3>1 DEF StreamInv, StreamOK, Held, InFlight, Writing
    <3>3. TypeInv' /\ AsksForMessage'
      BY <2>3, <3>1, <1>1 DEF TypeInv, AsksForMessage
    <3>4. QED
      BY <2>4, <3>2, <3>3 DEF Channel!Next
  <2>7. QED
    BY <1>6, <2>5, <2>6 DEF PayloadRead
<1>7. CASE PayloadRead /\ HeaderOf \in Misfits
  <2>1. /\ link = "open" /\ link' = "none" /\ want' = 0 /\ left' = 0
        /\ UNCHANGED <<conn, msgs, delivered, sent>>
    <3>1. HeaderOf.type \in DoneKinds
      BY <1>7 DEF Misfits
    <3>2. QED
      BY <1>7, <3>1 DEF PayloadRead, Close
  <2>2. PICK h \in Seq(SentByte), d \in Nat :
          h = got /\ d = Len(delivered) /\ StreamOK(h, d)
    BY <2>1 DEF StreamInv, StreamOK, Held, TypeInv
  <2>3. Len(got) >= HeaderSize
    BY <1>1, <1>7, <2>1, <2>2 DEF PayloadRead, AsksForMessage, TypeInv
  <2>4. got # <<>> /\ HeaderOf = Front(got)
    BY <2>1, <2>3, HeaderRead
  <2>5. d < Len(sent) => sent[d + 1] \in Misfits
    BY <1>7, <2>2, <2>4, NextSent
  <2>6. Channel!Hangup
    BY <2>1, <2>2, <2>5 DEF Channel!Hangup, Channel!Undelivered, Channel!NextMessage
  <2>7. Inv'
    BY <2>1 DEF TypeInv, AsksForMessage, StreamInv
  <2>8. QED
    BY <2>6, <2>7 DEF Channel!Next
<1>8. QED
  BY <1>2, <1>3, <1>4, <1>5, <1>6, <1>7 DEF WorkerStep

\* However the stream is cut into reads and whatever the sizes are, the worker
\* acts on the server's messages whole, once and in order, and a message that it
\* skips never shifts the ones behind it.
THEOREM WorkerReadsImplementChannel == Spec => WorkerImplementsChannel
<1>1. Inv /\ [Next]_vars => Inv' /\ [Channel!Next]_(Channel!channelVars)
  <2> SUFFICES ASSUME Inv, [Next]_vars
               PROVE  Inv' /\ [Channel!Next]_(Channel!channelVars)
    OBVIOUS
  <2>1. CASE Next
    BY <2>1, SenderSteps, WorkerSteps DEF Next
  <2>2. CASE UNCHANGED vars
    <3>1. UNCHANGED <<conn, link, msgs, unsent, stream, closed, sent, got, want, left, delivered>>
      BY <2>2 DEF vars, streamVars, senderVars, readerVars
    <3>2. Inv'
      BY <3>1 DEF Inv, TypeInv, AsksForMessage, Front, StreamInv, StreamOK, InFlight, Writing, Held
    <3>3. QED
      BY <3>1, <3>2 DEF Channel!channelVars
  <2>3. QED
    BY <2>1, <2>2
<1>2. QED
  BY InitInv, <1>1, PTL DEF Spec, WorkerImplementsChannel, Channel!Spec
=============================================================================
