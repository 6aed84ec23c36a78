---------------------------- MODULE StreamProofs ----------------------------
(***************************************************************************)
(* The bytes under way on a connection, from the reader's buffer to the    *)
(* sender's, are the messages that are not delivered, whole and in order;  *)
(* what a step does to them keeps that so.                                 *)
(***************************************************************************)
EXTENDS ByteStream, SequenceTheorems, TLAPS

Sendable == [type : Kinds, conn : 1 .. MaxConns, n : 1 .. MaxMsgs]
SentByte == Sendable \X Nat

\* Is the byte at i the last one of its message?
EndsAt(B, i) == B[i][2] = Size(B[i][1])

\* Around every byte are the other bytes of its message, those before it all of
\* them, in their places.
Whole(B) ==
  \A i \in 1 .. Len(B) :
    /\ B[i][2] \in 1 .. Size(B[i][1]) /\ B[i][2] <= i
    /\ \A j \in 1 .. Size(B[i][1]) :
         i - B[i][2] + j <= Len(B) => B[i - B[i][2] + j] = <<B[i][1], j>>

\* The messages follow one another, the first one after d others.
InOrder(B, d) ==
  /\ B # <<>> => B[1][1].n = d + 1
  /\ \A i \in 1 .. Len(B) - 1 : EndsAt(B, i) => B[i + 1][1].n = B[i][1].n + 1

Distinct(B) == \A i, j \in 1 .. Len(B) : B[i][1].n = B[j][1].n => B[i][1] = B[j][1]

\* The bytes B are those of messages one after the other, of which the first is
\* there from its first byte and is the next one after d messages.
Framed(B, d) == B \in Seq(SentByte) /\ Whole(B) /\ InOrder(B, d) /\ Distinct(B)

\* The first w of the bytes B are written: the messages s are those that were
\* delivered and those that are whole in there.
Written(B, w, d, s) ==
  /\ w \in 0 .. Len(B)
  /\ s \in Seq(Sendable)
  /\ Len(s) = IF w = 0 THEN d
              ELSE IF EndsAt(B, w) THEN B[w][1].n ELSE B[w][1].n - 1
  /\ \A i \in 1 .. w : EndsAt(B, i) => B[i][1].n <= Len(s)
  /\ \A i \in 1 .. w : B[i][1].n <= Len(s) => s[B[i][1].n] = B[i][1]

\* The bytes after the first w belong to the message the sender is writing.
Writing(B, w) ==
  /\ \A i \in 1 .. Len(B) : B[i][1].n <= msgs
  /\ unsent # <<>> =>
       /\ msgs = Len(sent) + 1
       /\ \A i \in w + 1 .. Len(B) : B[i][1].n = msgs
       /\ EndsAt(B, Len(B))
  /\ unsent = <<>> /\ ~ closed => msgs = Len(sent) /\ (w > 0 => EndsAt(B, w))
  /\ closed => unsent = <<>>

\* The bytes under way when the reader holds the bytes h.
InFlight(h) == (h \o stream) \o unsent

\* The reader has delivered d messages and holds the bytes h of the next ones.
StreamOK(h, d) ==
  /\ h \in Seq(SentByte) /\ stream \in Seq(SentByte) /\ unsent \in Seq(SentByte)
  /\ Framed(InFlight(h), d)
  /\ Written(InFlight(h), Len(h) + Len(stream), d, sent)
  /\ Writing(InFlight(h), Len(h) + Len(stream))

-----------------------------------------------------------------------------

\* The assumptions on the sizes, in the form the steps use.
LEMMA MessageSizes ==
  \A m \in Sendable : Size(m) \in Nat /\ Size(m) >= HeaderSize /\ Size(m) > 0
BY ByteStreamAssumption DEF ByteStreamAssumption, Sendable, Size, Kinds

\* The bytes of a message.
LEMMA BytesOf ==
  ASSUME NEW m \in Sendable
  PROVE  /\ Bytes(m) \in Seq(SentByte)
         /\ Len(Bytes(m)) = Size(m)
         /\ \A j \in 1 .. Size(m) : Bytes(m)[j] = <<m, j>>
<1>1. Size(m) \in Nat
  BY MessageSizes
<1>2. \A j \in 1 .. Size(m) : <<m, j>> \in SentByte
  BY <1>1 DEF SentByte
<1>3. QED
  BY <1>1, <1>2 DEF Bytes

\* What the pairs in a stream are.
LEMMA ByteParts ==
  ASSUME NEW B \in Seq(SentByte), NEW i \in 1 .. Len(B)
  PROVE  B[i][1] \in Sendable /\ B[i][2] \in Nat /\ B[i] = <<B[i][1], B[i][2]>>
         /\ B[i][1].n \in Nat /\ Size(B[i][1]) \in Nat \ {0}
<1>1. B[i] \in SentByte
  OBVIOUS
<1>2. B[i][1] \in Sendable /\ B[i][2] \in Nat /\ B[i] = <<B[i][1], B[i][2]>>
  BY <1>1 DEF SentByte
<1>3. QED
  BY <1>2, MessageSizes DEF Sendable

\* The first message of a framed stream starts at its first byte.
LEMMA FirstMessage ==
  ASSUME NEW d, NEW B, Framed(B, d), B # <<>>
  PROVE  /\ B[1][1] \in Sendable
         /\ B[1][1].n = d + 1
         /\ \A j \in 1 .. Size(B[1][1]) : j <= Len(B) => B[j] = <<B[1][1], j>>
<1>1. 1 \in 1 .. Len(B)
  BY DEF Framed
<1>2. B[1][2] = 1
  BY <1>1, ByteParts DEF Framed, Whole
<1>3. QED
  BY <1>1, <1>2, ByteParts DEF Framed, Whole, InOrder

\* The bytes C are the bytes B with those of the message m behind them.
Extends(C, B, m) ==
  /\ Len(C) = Len(B) + Size(m)
  /\ \A i \in 1 .. Len(B) : C[i] = B[i]
  /\ \A i \in 1 .. Len(C) : i > Len(B) => C[i] = <<m, i - Len(B)>>

LEMMA ConcatExtends ==
  ASSUME NEW B \in Seq(SentByte), NEW m \in Sendable
  PROVE  B \o Bytes(m) \in Seq(SentByte) /\ Extends(B \o Bytes(m), B, m)
<1> DEFINE C == B \o Bytes(m)
<1>1. /\ Bytes(m) \in Seq(SentByte) /\ Len(Bytes(m)) = Size(m)
      /\ \A j \in 1 .. Size(m) : Bytes(m)[j] = <<m, j>>
  BY BytesOf
<1>2. /\ C \in Seq(SentByte) /\ Len(C) = Len(B) + Len(Bytes(m))
      /\ \A i \in 1 .. Len(B) + Len(Bytes(m)) :
           C[i] = IF i <= Len(B) THEN B[i] ELSE Bytes(m)[i - Len(B)]
  BY <1>1, ConcatProperties, Zenon
<1>3. Len(B) \in Nat /\ Size(m) \in Nat
  BY MessageSizes
<1> HIDE DEF C
<1>4. C \in Seq(SentByte) /\ Extends(C, B, m)
  BY <1>1, <1>2, <1>3 DEF Extends
<1>5. QED
  BY <1>4 DEF C

\* A message can be put behind a stream that ends with a whole one.
LEMMA AppendWhole ==
  ASSUME NEW B \in Seq(SentByte), NEW C \in Seq(SentByte), NEW m \in Sendable,
         Extends(C, B, m), Whole(B), B # <<>> => EndsAt(B, Len(B))
  PROVE  Whole(C)
<1> SUFFICES ASSUME NEW i \in 1 .. Len(C)
             PROVE  /\ C[i][2] \in 1 .. Size(C[i][1]) /\ C[i][2] <= i
                    /\ \A j \in 1 .. Size(C[i][1]) :
                         i - C[i][2] + j <= Len(C) => C[i - C[i][2] + j] = <<C[i][1], j>>
  BY DEF Whole
<1>1. Len(B) \in Nat /\ Size(m) \in Nat \ {0} /\ Len(C) = Len(B) + Size(m)
  BY MessageSizes DEF Extends
<1>2. CASE i <= Len(B)
  <2>1. i \in 1 .. Len(B) /\ C[i] = B[i]
    BY <1>1, <1>2 DEF Extends
  <2>2. PICK b \in Sendable, k \in Nat : B[i] = <<b, k>>
    BY <2>1, ByteParts
  <2>3. PICK z \in Nat \ {0} : z = Size(b)
    BY MessageSizes
  <2>4. /\ k \in 1 .. z /\ k <= i
        /\ \A j \in 1 .. z : i - k + j <= Len(B) => B[i - k + j] = <<b, j>>
    <3>1. B[i][1] = b /\ B[i][2] = k
      BY <2>2
    <3>2. /\ B[i][2] \in 1 .. Size(B[i][1]) /\ B[i][2] <= i
          /\ \A j \in 1 .. Size(B[i][1]) :
               i - B[i][2] + j <= Len(B) => B[i - B[i][2] + j] = <<B[i][1], j>>
      BY <2>1, Zenon DEF Whole
    <3>3. QED
      BY <2>3, <3>1, <3>2, Zenon
  <2>5. ASSUME NEW j \in 1 .. z, i - k + j <= Len(C)
        PROVE  i - k + j <= Len(B)
    \* The message that ends B is whole.
    <3> SUFFICES ASSUME i - k + j > Len(B)
                 PROVE  FALSE
      BY <2>1, <1>1
    <3> DEFINE l == Len(B) - i + k
    <3>1. l \in Int /\ i - k + l = Len(B) /\ l \in 1 .. z /\ l < z /\ Len(B) # 0
      BY <2>1, <2>4, <1>1
    <3> HIDE DEF l
    <3>2. B[Len(B)] = <<b, l>>
      <4>1. i - k + l <= Len(B) => B[i - k + l] = <<b, l>>
        BY <2>4, <3>1, Zenon
      <4>2. QED
        BY <3>1, <4>1, <1>1
    <3>3. EndsAt(B, Len(B))
      BY <3>1
    <3>4. QED
      BY <2>3, <3>1, <3>2, <3>3 DEF EndsAt
  <2>6. ASSUME NEW j \in 1 .. z, i - k + j <= Len(C)
        PROVE  C[i - k + j] = <<b, j>>
    <3>1. i - k + j <= Len(B) => B[i - k + j] = <<b, j>>
      BY <2>4, Zenon
    <3>2. i - k + j <= Len(B)
      BY <2>5, <2>6
    <3>3. i - k + j \in 1 .. Len(B)
      BY <2>1, <2>4, <3>2, <1>1
    <3>4. QED
      BY <3>1, <3>2, <3>3 DEF Extends
  <2>7. \A j \in 1 .. z : i - k + j <= Len(C) => C[i - k + j] = <<b, j>>
    BY <2>6
  <2>8. QED
    BY <2>1, <2>2, <2>3, <2>4, <2>7
<1>3. CASE i > Len(B)
  <2>1. C[i] = <<m, i - Len(B)>> /\ i - Len(B) \in 1 .. Size(m)
    BY <1>1, <1>3 DEF Extends
  <2>2. i - (i - Len(B)) = Len(B)
    BY <1>1
  <2>3. \A j \in 1 .. Size(m) : C[Len(B) + j] = <<m, j>>
    BY <1>1 DEF Extends
  <2>4. QED
    BY <2>1, <2>2, <2>3, <1>1
<1>4. QED
  BY <1>1, <1>2, <1>3

LEMMA AppendInOrder ==
  ASSUME NEW B \in Seq(SentByte), NEW C \in Seq(SentByte), NEW m \in Sendable,
         Extends(C, B, m), NEW d \in Nat, InOrder(B, d),
         IF B = <<>> THEN m.n = d + 1 ELSE m.n = B[Len(B)][1].n + 1
  PROVE  InOrder(C, d)
<1>1. Len(B) \in Nat /\ Size(m) \in Nat \ {0} /\ Len(C) = Len(B) + Size(m)
  BY MessageSizes DEF Extends
<1>2. C # <<>> => C[1][1].n = d + 1
  <2>1. CASE B = <<>>
    <3>1. C[1] = <<m, 1>>
      BY <2>1, <1>1 DEF Extends
    <3>2. QED
      BY <2>1, <3>1
  <2>2. CASE B # <<>>
    <3>1. C[1] = B[1]
      BY <2>2, <1>1 DEF Extends
    <3>2. QED
      BY <2>2, <3>1 DEF InOrder
  <2>3. QED
    BY <2>1, <2>2
<1>3. ASSUME NEW i \in 1 .. Len(C) - 1, EndsAt(C, i)
      PROVE  C[i + 1][1].n = C[i][1].n + 1
  <2>1. CASE i < Len(B)
    <3>1. i \in 1 .. Len(B) - 1 /\ i \in 1 .. Len(B) /\ i + 1 \in 1 .. Len(B)
      BY <2>1, <1>1
    <3>2. C[i] = B[i] /\ C[i + 1] = B[i + 1]
      BY <3>1 DEF Extends
    <3>3. QED
      BY <1>3, <3>1, <3>2 DEF InOrder, EndsAt
  <2>2. CASE i = Len(B)
    <3>1. C[i] = B[Len(B)] /\ C[i + 1] = <<m, 1>> /\ B # <<>>
      BY <2>2, <1>1 DEF Extends
    <3>2. QED
      BY <3>1
  <2>3. CASE i > Len(B)
    <3>1. C[i] = <<m, i - Len(B)>> /\ i - Len(B) < Size(m)
      BY <2>3, <1>1 DEF Extends
    <3>2. QED
      BY <1>3, <3>1, <1>1 DEF EndsAt
  <2>4. QED
    BY <2>1, <2>2, <2>3, <1>1
<1>4. QED
  BY <1>2, <1>3 DEF InOrder

LEMMA AppendDistinct ==
  ASSUME NEW B \in Seq(SentByte), NEW C \in Seq(SentByte), NEW m \in Sendable,
         Extends(C, B, m), Distinct(B), \A i \in 1 .. Len(B) : B[i][1].n < m.n
  PROVE  Distinct(C)
<1>1. \A i \in 1 .. Len(C) :
        \/ i \in 1 .. Len(B) /\ C[i] = B[i] /\ B[i][1].n < m.n
        \/ C[i][1] = m
  BY DEF Extends
<1>2. m.n \in Nat /\ \A i \in 1 .. Len(B) : B[i][1].n \in Nat
  BY ByteParts DEF Sendable
<1>3. QED
  BY <1>1, <1>2 DEF Distinct

\* The first bytes of a framed stream are a framed stream.
LEMMA PrefixFramed ==
  ASSUME NEW B, NEW d, Framed(B, d), NEW w \in 0 .. Len(B)
  PROVE  /\ Framed(SubSeq(B, 1, w), d)
         /\ Len(SubSeq(B, 1, w)) = w
         /\ \A i \in 1 .. w : SubSeq(B, 1, w)[i] = B[i]
<1> DEFINE P == SubSeq(B, 1, w)
<1>1. B \in Seq(SentByte) /\ Len(B) \in Nat
  BY DEF Framed
<1>2. P \in Seq(SentByte) /\ Len(P) = w /\ \A i \in 1 .. w : P[i] = B[i]
  BY <1>1
<1> HIDE DEF P
<1>3. Whole(P)
  <2> SUFFICES ASSUME NEW i \in 1 .. w
               PROVE  /\ P[i][2] \in 1 .. Size(P[i][1]) /\ P[i][2] <= i
                      /\ \A j \in 1 .. Size(P[i][1]) :
                           i - P[i][2] + j <= w => P[i - P[i][2] + j] = <<P[i][1], j>>
    BY <1>2 DEF Whole
  <2>1. i \in 1 .. Len(B) /\ P[i] = B[i]
    BY <1>1, <1>2
  <2>2. PICK b \in Sendable, k \in Nat : B[i] = <<b, k>>
    BY <2>1, <1>1, ByteParts
  <2>3. B[i][1] = b /\ B[i][2] = k
    BY <2>2
  <2>4. /\ k \in 1 .. Size(b) /\ k <= i
        /\ \A j \in 1 .. Size(b) : i - k + j <= Len(B) => B[i - k + j] = <<b, j>>
    <3>1. /\ B[i][2] \in 1 .. Size(B[i][1]) /\ B[i][2] <= i
          /\ \A j \in 1 .. Size(B[i][1]) :
               i - B[i][2] + j <= Len(B) => B[i - B[i][2] + j] = <<B[i][1], j>>
      BY <2>1, Zenon DEF Framed, Whole
    <3>2. QED
      BY <2>3, <3>1, Zenon
  <2>5. ASSUME NEW j \in 1 .. Size(b), i - k + j <= w
        PROVE  P[i - k + j] = <<b, j>>
    <3>1. Size(b) \in Nat
      BY MessageSizes
    <3>2. i - k + j \in 1 .. w /\ i - k + j <= Len(B)
      BY <2>4, <2>5, <3>1, <1>1
    <3>3. B[i - k + j] = <<b, j>>
      BY <2>4, <3>2, Zenon
    <3>4. QED
      BY <3>2, <3>3, <1>2
  <2>6. QED
    BY <2>1, <2>3, <2>4, <2>5
<1>4. InOrder(P, d)
  <2>1. P # <<>> => P[1][1].n = d + 1
    <3>1. P # <<>> => B # <<>> /\ P[1] = B[1]
      BY <1>1, <1>2
    <3>2. QED
      BY <3>1 DEF Framed, InOrder
  <2>2. ASSUME NEW i \in 1 .. Len(P) - 1, EndsAt(P, i)
        PROVE  P[i + 1][1].n = P[i][1].n + 1
    <3>1. i \in 1 .. Len(B) - 1 /\ i \in 1 .. w /\ i + 1 \in 1 .. w
      BY <1>1, <1>2
    <3>2. P[i] = B[i] /\ P[i + 1] = B[i + 1]
      BY <3>1, <1>2
    <3>3. QED
      BY <2>2, <3>1, <3>2 DEF Framed, InOrder, EndsAt
  <2>3. QED
    BY <2>1, <2>2 DEF InOrder
<1>5. Distinct(P)
  <2>1. \A i \in 1 .. Len(P) : i \in 1 .. Len(B) /\ P[i] = B[i]
    BY <1>1, <1>2
  <2>2. QED
    BY <2>1 DEF Framed, Distinct
<1>6. Framed(P, d)
  BY <1>2, <1>3, <1>4, <1>5 DEF Framed
<1>7. QED
  BY <1>2, <1>6 DEF P

\* What is behind the first message of a framed stream is a framed stream.
LEMMA RestFramed ==
  ASSUME NEW B, NEW d \in Nat, Framed(B, d), B # <<>>, NEW z, z = Size(B[1][1]),
         z <= Len(B)
  PROVE  /\ Framed(SubSeq(B, z + 1, Len(B)), d + 1)
         /\ Len(SubSeq(B, z + 1, Len(B))) = Len(B) - z
         /\ \A i \in 1 .. Len(B) - z : SubSeq(B, z + 1, Len(B))[i] = B[z + i]
<1> DEFINE R == SubSeq(B, z + 1, Len(B))
<1>1. B \in Seq(SentByte) /\ Len(B) \in Nat
  BY DEF Framed
<1>2. PICK m \in Sendable : m = B[1][1] /\ m.n = d + 1
                            /\ \A j \in 1 .. z : j <= Len(B) => B[j] = <<m, j>>
  BY FirstMessage
<1>3. z \in Nat \ {0} /\ z = Size(m)
  BY <1>2, MessageSizes
<1>4. B[z] = <<m, z>>
  BY <1>2, <1>3
<1>5. /\ R \in Seq(SentByte) /\ Len(R) = Len(B) - z
      /\ \A i \in 1 .. Len(B) - z : R[i] = B[z + i]
  BY <1>1, <1>3
<1> HIDE DEF R
<1>6. Whole(R)
  <2> SUFFICES ASSUME NEW i \in 1 .. Len(B) - z
               PROVE  /\ R[i][2] \in 1 .. Size(R[i][1]) /\ R[i][2] <= i
                      /\ \A j \in 1 .. Size(R[i][1]) :
                           i - R[i][2] + j <= Len(B) - z => R[i - R[i][2] + j] = <<R[i][1], j>>
    BY <1>5 DEF Whole
  <2>1. PICK p \in 1 .. Len(B) : p = z + i /\ R[i] = B[p]
    <3>1. z + i \in 1 .. Len(B) /\ R[i] = B[z + i]
      BY <1>1, <1>3, <1>5
    <3>2. QED
      BY <3>1, Zenon
  <2>2. PICK b \in Sendable, k \in Nat : B[p] = <<b, k>>
    BY <1>1, ByteParts
  <2>3. B[p][1] = b /\ B[p][2] = k /\ Size(b) \in Nat
    BY <2>2, MessageSizes
  <2>4. /\ k \in 1 .. Size(b) /\ k <= p
        /\ \A j \in 1 .. Size(b) : p - k + j <= Len(B) => B[p - k + j] = <<b, j>>
    <3>1. /\ B[p][2] \in 1 .. Size(B[p][1]) /\ B[p][2] <= p
          /\ \A j \in 1 .. Size(B[p][1]) :
               p - B[p][2] + j <= Len(B) => B[p - B[p][2] + j] = <<B[p][1], j>>
      BY Zenon DEF Framed, Whole
    <3>2. QED
      BY <2>3, <3>1, Zenon
  <2>5. k <= i
    \* Otherwise the message reaches back over the end of the first one.
    <3> SUFFICES ASSUME k > i
                 PROVE  FALSE
      BY <1>1, <1>3
    <3> DEFINE j == k - i
    <3>1. j \in 1 .. Size(b) /\ p - k + j = z /\ i > 0 /\ k = j + i
      BY <2>1, <2>3, <2>4, <1>1, <1>3
    <3> HIDE DEF j
    <3>2. p - k + j <= Len(B) => B[p - k + j] = <<b, j>>
      BY <2>4, <3>1, Zenon
    <3>3. B[z] = <<b, j>>
      BY <3>1, <3>2
    <3>4. b = m /\ j = z
      BY <3>3, <1>4
    <3>5. QED
      BY <2>3, <2>4, <3>1, <3>4, <1>3
  <2>6. ASSUME NEW j \in 1 .. Size(b), i - k + j <= Len(B) - z
        PROVE  R[i - k + j] = <<b, j>>
    <3> DEFINE size == Size(b)
    <3>1. k \in Nat /\ j \in 1 .. size /\ size \in Nat /\ i \in Nat
      BY <2>3, <1>1, <1>3
    <3> HIDE DEF size
    <3>2. i - k + j \in 1 .. Len(B) - z /\ z + (i - k + j) = p - k + j
          /\ p - k + j <= Len(B)
      <4>1. PICK t, a \in Nat :
              t = Len(B) /\ a = z /\ p = a + i /\ i - k + j <= t - a
        BY <2>1, <2>6, <1>1, <1>3, Zenon
      <4>2. p = a + i /\ i - k + j <= t - a /\ k <= i /\ j >= 1 /\ p \in Nat
        BY <4>1, <3>1, <2>5
      <4>3. i - k + j \in 1 .. t - a /\ a + (i - k + j) = p - k + j /\ p - k + j <= t
        BY <4>2, <3>1
      <4>4. QED
        BY <4>1, <4>3, Zenon
    <3>3. B[p - k + j] = <<b, j>>
      BY <2>4, <3>2, Zenon
    <3>4. R[i - k + j] = B[z + (i - k + j)]
      BY <3>2, <1>5
    <3>5. QED
      BY <3>2, <3>3, <3>4
  <2>7. QED
    BY <2>1, <2>3, <2>4, <2>5, <2>6
<1>7. InOrder(R, d + 1)
  <2>1. R # <<>> => R[1][1].n = (d + 1) + 1
    <3>1. SUFFICES ASSUME R # <<>>
                   PROVE  R[1][1].n = (d + 1) + 1
      OBVIOUS
    <3>2. R[1] = B[z + 1] /\ z \in 1 .. Len(B) - 1
      BY <3>1, <1>1, <1>3, <1>5
    <3>3. EndsAt(B, z)
      BY <1>3, <1>4 DEF EndsAt
    <3>4. QED
      BY <3>2, <3>3, <1>2, <1>4 DEF Framed, InOrder
  <2>2. ASSUME NEW i \in 1 .. Len(R) - 1, EndsAt(R, i)
        PROVE  R[i + 1][1].n = R[i][1].n + 1
    <3>1. z + i \in 1 .. Len(B) - 1 /\ i \in 1 .. Len(B) - z /\ i + 1 \in 1 .. Len(B) - z
          /\ z + (i + 1) = z + i + 1
      BY <1>1, <1>3, <1>5
    <3>2. R[i] = B[z + i] /\ R[i + 1] = B[z + i + 1]
      BY <3>1, <1>5
    <3>3. QED
      BY <2>2, <3>1, <3>2 DEF Framed, InOrder, EndsAt
  <2>3. QED
    BY <2>1, <2>2 DEF InOrder
<1>8. Distinct(R)
  <2>1. \A i \in 1 .. Len(R) : z + i \in 1 .. Len(B) /\ R[i] = B[z + i]
    BY <1>1, <1>3, <1>5
  <2>2. QED
    BY <2>1 DEF Framed, Distinct
<1>9. Framed(R, d + 1)
  BY <1>5, <1>6, <1>7, <1>8 DEF Framed
<1>10. QED
  BY <1>5, <1>9 DEF R

LEMMA AppendFramed ==
  ASSUME NEW B, NEW d \in Nat, Framed(B, d), NEW m \in Sendable,
         B # <<>> => EndsAt(B, Len(B)),
         IF B = <<>> THEN m.n = d + 1 ELSE m.n = B[Len(B)][1].n + 1,
         \A i \in 1 .. Len(B) : B[i][1].n < m.n
  PROVE  Framed(B \o Bytes(m), d) /\ Extends(B \o Bytes(m), B, m)
<1>1. B \in Seq(SentByte) /\ Whole(B) /\ InOrder(B, d) /\ Distinct(B)
  BY DEF Framed
<1>2. PICK C \in Seq(SentByte) : C = B \o Bytes(m) /\ Extends(C, B, m)
  BY <1>1, ConcatExtends
<1>3. Whole(C) /\ InOrder(C, d) /\ Distinct(C)
  BY <1>1, <1>2, AppendWhole, AppendInOrder, AppendDistinct
<1>4. QED
  BY <1>2, <1>3 DEF Framed

-----------------------------------------------------------------------------
(* What the steps do to the stream, for a reader that holds the bytes h.   *)

\* Two sequences, one after the other.
LEMMA ConcatParts ==
  ASSUME NEW s \in Seq(SentByte), NEW t \in Seq(SentByte)
  PROVE  /\ s \o t \in Seq(SentByte) /\ Len(s \o t) = Len(s) + Len(t)
         /\ \A i \in 1 .. Len(s) : (s \o t)[i] = s[i]
         /\ \A i \in 1 .. Len(t) : (s \o t)[Len(s) + i] = t[i]
<1>1. /\ s \o t \in Seq(SentByte) /\ Len(s \o t) = Len(s) + Len(t)
      /\ \A i \in 1 .. Len(s) + Len(t) :
           (s \o t)[i] = IF i <= Len(s) THEN s[i] ELSE t[i - Len(s)]
  BY ConcatProperties, Zenon
<1>2. PICK c : c = s \o t
  OBVIOUS
<1>3. \A i \in 1 .. Len(s) : c[i] = s[i]
  BY <1>1, <1>2
<1>4. \A i \in 1 .. Len(t) : c[Len(s) + i] = t[i]
  <2> SUFFICES ASSUME NEW i \in 1 .. Len(t)
               PROVE  c[Len(s) + i] = t[i]
    OBVIOUS
  <2>1. PICK j \in 1 .. Len(s) + Len(t) : j = Len(s) + i /\ j > Len(s) /\ j - Len(s) = i
    OBVIOUS
  <2>2. c[j] = t[j - Len(s)]
    BY <1>1, <1>2, <2>1
  <2>3. QED
    BY <2>1, <2>2
<1>5. QED
  BY <1>1, <1>2, <1>3, <1>4

LEMMA Regroup ==
  ASSUME NEW r \in Seq(SentByte), NEW s \in Seq(SentByte), NEW t \in Seq(SentByte)
  PROVE  (r \o s) \o t = r \o (s \o t)
BY ConcatAssociative

\* Where the bytes under way are.
LEMMA WhereBytesAre ==
  ASSUME NEW h \in Seq(SentByte), stream \in Seq(SentByte), unsent \in Seq(SentByte)
  PROVE  /\ InFlight(h) \in Seq(SentByte)
         /\ Len(InFlight(h)) = Len(h) + Len(stream) + Len(unsent)
         /\ \A i \in 1 .. Len(h) : InFlight(h)[i] = h[i]
         /\ \A i \in 1 .. Len(stream) : InFlight(h)[Len(h) + i] = stream[i]
         /\ \A i \in 1 .. Len(unsent) :
              InFlight(h)[Len(h) + Len(stream) + i] = unsent[i]
<1>1. PICK A \in Seq(SentByte) :
        /\ A = h \o stream /\ Len(A) = Len(h) + Len(stream)
        /\ \A i \in 1 .. Len(h) : A[i] = h[i]
        /\ \A i \in 1 .. Len(stream) : A[Len(h) + i] = stream[i]
  BY ConcatParts, Zenon
<1>2. PICK B \in Seq(SentByte) :
        /\ B = A \o unsent /\ Len(B) = Len(A) + Len(unsent)
        /\ \A i \in 1 .. Len(A) : B[i] = A[i]
        /\ \A i \in 1 .. Len(unsent) : B[Len(A) + i] = unsent[i]
  BY ConcatParts, Zenon
<1>3. InFlight(h) = B
  BY <1>1, <1>2 DEF InFlight
<1>4. QED
  BY <1>1, <1>2, <1>3

LEMMA ConnectStream == Connect => StreamOK(<<>>, 0)'
<1> SUFFICES ASSUME Connect
             PROVE  StreamOK(<<>>, 0)'
  OBVIOUS
<1>1. /\ unsent' = <<>> /\ stream' = <<>> /\ sent' = <<>> /\ msgs' = 0
      /\ closed' = FALSE
  BY DEF Connect
<1>2. InFlight(<<>>)' = <<>>
  BY <1>1 DEF InFlight
<1>3. Framed(<<>>, 0)
  BY DEF Framed, Whole, InOrder, Distinct
<1>4. Written(<<>>, 0, 0, <<>>)
  BY DEF Written
<1>5. Writing(<<>>, 0)'
  BY <1>1 DEF Writing
<1>6. QED
  BY <1>1, <1>2, <1>3, <1>4, <1>5 DEF StreamOK

LEMMA StartMessageStream ==
  ASSUME NEW h, NEW d \in Nat, StreamOK(h, d), NEW t \in Kinds, StartMessage(t),
         conn \in 1 .. MaxConns, msgs \in Nat
  PROVE  StreamOK(h, d)'
<1>1. PICK m : m = [type |-> t, conn |-> conn, n |-> msgs + 1]
  OBVIOUS
<1>2. /\ unsent = <<>> /\ unsent' = Bytes(m) /\ msgs' = msgs + 1 /\ ~ closed
      /\ UNCHANGED <<stream, closed, sent>>
  BY <1>1 DEF StartMessage
<1>3. m \in Sendable /\ m.n = msgs + 1 /\ Size(m) \in Nat \ {0}
  <2>1. m \in Sendable /\ m.n = msgs + 1
    BY <1>1, ByteStreamAssumption DEF Sendable, StartMessage, ByteStreamAssumption
  <2>2. QED
    BY <2>1, MessageSizes
<1>4. h \in Seq(SentByte) /\ stream \in Seq(SentByte)
  BY DEF StreamOK
<1>5. PICK B \in Seq(SentByte), w \in Nat :
        B = InFlight(h) /\ w = Len(h) + Len(stream)
  BY DEF StreamOK, Framed
<1>6. B = h \o stream /\ Len(B) = w
  BY <1>2, <1>4, <1>5 DEF InFlight
<1>7. Framed(B, d) /\ Written(B, w, d, sent) /\ Writing(B, w)
  BY <1>5 DEF StreamOK
<1>8. msgs = Len(sent) /\ (B # <<>> => EndsAt(B, Len(B)))
  BY <1>2, <1>6, <1>7 DEF Writing
<1>9. IF B = <<>> THEN m.n = d + 1 ELSE m.n = B[Len(B)][1].n + 1
  BY <1>3, <1>6, <1>7, <1>8 DEF Written
<1>10. \A i \in 1 .. Len(B) : B[i][1].n < m.n
  <2>1. \A i \in 1 .. Len(B) : B[i][1].n <= msgs
    BY <1>7 DEF Writing
  <2>2. \A i \in 1 .. Len(B) : B[i][1].n \in Nat
    BY ByteParts
  <2>3. QED
    BY <1>3, <2>1, <2>2
<1>11. PICK C : C = B \o Bytes(m) /\ Framed(C, d) /\ Extends(C, B, m)
  BY <1>3, <1>7, <1>8, <1>9, <1>10, AppendFramed
<1>12. InFlight(h)' = C /\ (Len(h) + Len(stream))' = w
  BY <1>2, <1>5, <1>6, <1>11 DEF InFlight
<1>13. /\ Len(C) = w + Size(m)
       /\ \A i \in 1 .. w : C[i] = B[i]
       /\ \A i \in w + 1 .. Len(C) : C[i] = <<m, i - w>>
  <2>1. /\ Len(C) = w + Size(m)
        /\ \A i \in 1 .. w : C[i] = B[i]
        /\ \A i \in 1 .. Len(C) : i > w => C[i] = <<m, i - w>>
    BY <1>6, <1>11 DEF Extends
  <2>2. QED
    BY <1>3, <2>1
<1>14. Written(C, w, d, sent')
  <2>1. w > 0 => C[w] = B[w]
    BY <1>13
  <2>2. w \in 0 .. Len(C) /\ sent' \in Seq(Sendable)
    BY <1>2, <1>3, <1>7, <1>13 DEF Written
  <2>3. Len(sent') = IF w = 0 THEN d
                     ELSE IF EndsAt(C, w) THEN C[w][1].n ELSE C[w][1].n - 1
    BY <1>2, <1>7, <2>1 DEF Written, EndsAt
  <2>4. \A i \in 1 .. w : C[i][1].n <= Len(sent') => sent'[C[i][1].n] = C[i][1]
    BY <1>2, <1>7, <1>13, Zenon DEF Written
  <2>5. \A i \in 1 .. w : EndsAt(C, i) => C[i][1].n <= Len(sent')
    BY <1>2, <1>7, <1>13 DEF Written, EndsAt
  <2>6. QED
    BY <2>2, <2>3, <2>4, <2>5 DEF Written
<1>15. Writing(C, w)'
  <2>1. \A i \in w + 1 .. Len(C) : C[i][1].n = msgs'
    BY <1>2, <1>3, <1>13
  <2>2. \A i \in 1 .. Len(C) : C[i][1].n <= msgs'
    <3>1. \A i \in 1 .. w : C[i][1].n < m.n /\ C[i][1].n \in Nat
      BY <1>6, <1>10, <1>13, ByteParts
    <3>2. \A i \in 1 .. Len(C) : i \in 1 .. w \/ i \in w + 1 .. Len(C)
      BY <1>3, <1>13
    <3>3. QED
      BY <1>2, <1>3, <2>1, <3>1, <3>2
  <2>3. EndsAt(C, Len(C))
    <3>1. C[Len(C)] = <<m, Size(m)>>
      BY <1>3, <1>13
    <3>2. QED
      BY <3>1 DEF EndsAt
  <2>4. msgs' = Len(sent') + 1
    BY <1>2, <1>8
  <2>5. unsent' # <<>>
    BY <1>2, <1>3, BytesOf
  <2>6. QED
    BY <1>2, <2>1, <2>2, <2>3, <2>4, <2>5 DEF Writing
<1>16. unsent' \in Seq(SentByte)
  BY <1>2, <1>3, BytesOf
<1>17. QED
  BY <1>2, <1>4, <1>11, <1>12, <1>14, <1>15, <1>16 DEF StreamOK

\* A sequence cut in two.
LEMMA CutParts ==
  ASSUME NEW t \in Seq(SentByte), NEW k \in 0 .. Len(t)
  PROVE  /\ SubSeq(t, 1, k) \in Seq(SentByte) /\ Len(SubSeq(t, 1, k)) = k
         /\ \A i \in 1 .. k : SubSeq(t, 1, k)[i] = t[i]
         /\ SubSeq(t, k + 1, Len(t)) \in Seq(SentByte)
         /\ Len(SubSeq(t, k + 1, Len(t))) = Len(t) - k
         /\ \A i \in 1 .. Len(t) - k : SubSeq(t, k + 1, Len(t))[i] = t[k + i]
<1>1. /\ SubSeq(t, 1, k) \in Seq(SentByte) /\ Len(SubSeq(t, 1, k)) = k
      /\ \A i \in 1 .. k : SubSeq(t, 1, k)[i] = t[i]
  OBVIOUS
<1>2. /\ SubSeq(t, k + 1, Len(t)) \in Seq(SentByte)
      /\ Len(SubSeq(t, k + 1, Len(t))) = Len(t) - k
      /\ \A i \in 1 .. Len(t) - k : SubSeq(t, k + 1, Len(t))[i] = t[k + i]
  OBVIOUS
<1>3. QED
  BY <1>1, <1>2

\* Bytes that move from the front of t to the end of s stay where they are.
LEMMA MoveBytes ==
  ASSUME NEW s \in Seq(SentByte), NEW t \in Seq(SentByte), NEW k \in 0 .. Len(t)
  PROVE  /\ SubSeq(t, 1, k) \in Seq(SentByte) /\ Len(SubSeq(t, 1, k)) = k
         /\ SubSeq(t, k + 1, Len(t)) \in Seq(SentByte)
         /\ Len(SubSeq(t, k + 1, Len(t))) = Len(t) - k
         /\ (s \o SubSeq(t, 1, k)) \o SubSeq(t, k + 1, Len(t)) = s \o t
<1>1. PICK p \in Seq(SentByte) :
        p = SubSeq(t, 1, k) /\ Len(p) = k /\ \A i \in 1 .. k : p[i] = t[i]
  BY CutParts, Zenon
<1>2. PICK r \in Seq(SentByte) :
        /\ r = SubSeq(t, k + 1, Len(t)) /\ Len(r) = Len(t) - k
        /\ \A i \in 1 .. Len(t) - k : r[i] = t[k + i]
  BY CutParts, Zenon
<1>3. PICK a \in Seq(SentByte) :
        /\ a = p \o r /\ Len(a) = Len(p) + Len(r)
        /\ \A i \in 1 .. Len(p) : a[i] = p[i]
        /\ \A i \in 1 .. Len(r) : a[Len(p) + i] = r[i]
  BY ConcatParts, Zenon
<1>4. ASSUME NEW i \in 1 .. Len(t)
      PROVE  a[i] = t[i]
  <2>1. CASE i <= k
    BY <1>1, <1>3, <2>1
  <2>2. CASE i > k
    <3>1. PICK j \in 1 .. Len(t) - k : i = k + j
      <4> DEFINE j == i - k
      <4>1. j \in 1 .. Len(t) - k /\ i = k + j
        BY <2>2
      <4>2. QED
        BY <4>1, Zenon
    <3>2. a[k + j] = r[j] /\ r[j] = t[k + j]
      BY <1>1, <1>2, <1>3
    <3>3. QED
      BY <3>1, <3>2
  <2>3. QED
    BY <2>1, <2>2
<1>5. a = t
  <2>1. Len(a) = Len(t)
    <3>1. Len(t) \in Nat /\ k \in Int
      OBVIOUS
    <3>2. Len(a) = Len(p) + Len(r) /\ Len(p) = k /\ Len(r) = Len(t) - k
      BY <1>1, <1>2, <1>3, Zenon
    <3>3. QED
      BY <3>1, <3>2
  <2>2. QED
    BY <1>4, <2>1, SeqEqual
<1>6. (s \o p) \o r = s \o (p \o r)
  BY ConcatAssociative
<1>7. QED
  BY <1>1, <1>2, <1>3, <1>5, <1>6

\* The bytes of one write() are the next ones of the message that is under way.
LEMMA WriteSomeStream ==
  ASSUME NEW h, NEW d \in Nat, StreamOK(h, d), WriteSome, msgs \in Nat
  PROVE  /\ StreamOK(h, d)'
         /\ sent' = sent \/ \E m \in Sendable : sent' = Append(sent, m)
<1>1. PICK B \in Seq(SentByte), w \in Nat :
        B = InFlight(h) /\ w = Len(h) + Len(stream)
  BY DEF StreamOK, Framed
<1>2. /\ h \in Seq(SentByte) /\ stream \in Seq(SentByte) /\ unsent \in Seq(SentByte)
      /\ Framed(B, d) /\ Written(B, w, d, sent) /\ Writing(B, w)
  BY <1>1 DEF StreamOK
<1>3. PICK m : m = Head(unsent)[1]
  OBVIOUS
<1>4. /\ Len(B) = w + Len(unsent)
      /\ \A i \in 1 .. Len(unsent) : B[w + i] = unsent[i]
  BY <1>1, <1>2, WhereBytesAre
<1>5. unsent # <<>> /\ Len(unsent) \in Nat \ {0} /\ UNCHANGED <<msgs, closed>>
  BY <1>2 DEF WriteSome
<1>6. m \in Sendable /\ m = B[w + 1][1]
  <2>1. Head(unsent) = B[w + 1] /\ w + 1 \in 1 .. Len(B)
    BY <1>2, <1>4, <1>5
  <2>2. QED
    BY <1>3, <2>1, ByteParts
<1>7. PICK k \in 1 .. Len(unsent) :
        /\ stream' = stream \o SubSeq(unsent, 1, k)
        /\ unsent' = SubSeq(unsent, k + 1, Len(unsent))
        /\ sent' = IF k = Len(unsent) THEN Append(sent, m) ELSE sent
  <2> DEFINE given == IF Head(unsent)[2] <= HeaderSize
                      THEN Len(unsent) - PayloadSize[m.type] ELSE Len(unsent)
  <2>1. PayloadSize[m.type] \in Nat
    BY <1>6, ByteStreamAssumption DEF ByteStreamAssumption, Sendable, Kinds
  <2>2. given \in Int /\ given <= Len(unsent)
    BY <1>5, <2>1
  <2>3. \E k \in 1 .. given :
          /\ stream' = stream \o SubSeq(unsent, 1, k)
          /\ unsent' = SubSeq(unsent, k + 1, Len(unsent))
          /\ sent' = IF k = Len(unsent) THEN Append(sent, m) ELSE sent
    BY <1>3, Zenon DEF WriteSome
  <2> HIDE DEF given
  <2>4. \A k \in 1 .. given : k \in 1 .. Len(unsent)
    BY <1>5, <2>2
  <2>5. QED
    BY <2>3, <2>4, Zenon
<1>8. PICK v \in Nat : v = w + k /\ v <= Len(B) /\ v > w /\ (v = Len(B) <=> k = Len(unsent))
  <2>1. w + k \in Nat /\ w + k <= Len(B) /\ w + k > w /\ (w + k = Len(B) <=> k = Len(unsent))
    BY <1>4, <1>5
  <2>2. QED
    BY <2>1, Zenon
<1>9. /\ h \in Seq(SentByte) /\ stream' \in Seq(SentByte) /\ unsent' \in Seq(SentByte)
      /\ InFlight(h)' = B /\ (Len(h) + Len(stream))' = v
      /\ unsent' = <<>> <=> k = Len(unsent)
  <2>1. PICK p \in Seq(SentByte), r \in Seq(SentByte) :
          /\ p = SubSeq(unsent, 1, k) /\ r = SubSeq(unsent, k + 1, Len(unsent))
          /\ Len(p) = k /\ Len(r) = Len(unsent) - k
          /\ ((h \o stream) \o p) \o r = (h \o stream) \o unsent
    <3>1. PICK a \in Seq(SentByte), u \in Seq(SentByte) : a = h \o stream /\ u = unsent
      BY <1>2, ConcatParts, Zenon
    <3>2. k \in 0 .. Len(u)
      BY <3>1
    <3>3. /\ SubSeq(u, 1, k) \in Seq(SentByte) /\ SubSeq(u, k + 1, Len(u)) \in Seq(SentByte)
          /\ Len(SubSeq(u, 1, k)) = k /\ Len(SubSeq(u, k + 1, Len(u))) = Len(u) - k
          /\ (a \o SubSeq(u, 1, k)) \o SubSeq(u, k + 1, Len(u)) = a \o u
      BY <3>2, MoveBytes, Zenon
    <3>4. QED
      BY <3>1, <3>3, Zenon
  <2>2. (h \o stream) \o p = h \o (stream \o p)
    <3>1. PICK q \in Seq(SentByte), g \in Seq(SentByte) : q = stream /\ g = h
      BY <1>2, Zenon
    <3>2. (g \o q) \o p = g \o (q \o p)
      BY Regroup, Zenon
    <3>3. QED
      BY <3>1, <3>2
  <2>3. stream' = stream \o p /\ unsent' = r
    BY <1>7, <2>1
  <2>4. InFlight(h)' = B
    BY <1>1, <2>1, <2>2, <2>3 DEF InFlight
  <2>5. (Len(h) + Len(stream))' = v
    BY <1>1, <1>2, <1>8, <2>1, <2>3
  <2>6. stream' \in Seq(SentByte)
    BY <1>2, <2>1, <2>3, ConcatParts
  <2>7. unsent' = <<>> <=> k = Len(unsent)
    <3>1. Len(r) = 0 <=> r = <<>>
      BY EmptySeq
    <3>2. Len(r) = 0 <=> k = Len(unsent)
      BY <1>5, <2>1
    <3>3. QED
      BY <2>3, <3>1, <3>2
  <2>8. QED
    BY <1>2, <2>1, <2>3, <2>4, <2>5, <2>6, <2>7
<1>10. PICK n \in Nat :
         /\ n = msgs /\ n = Len(sent) + 1
         /\ \A i \in 1 .. Len(B) : B[i][1].n <= n
         /\ \A i \in w + 1 .. Len(B) : B[i][1].n = n
         /\ EndsAt(B, Len(B))
  BY <1>2, <1>5 DEF Writing
<1>11. m.n = n /\ w + 1 \in 1 .. Len(B)
  <2>1. w + 1 \in w + 1 .. Len(B) /\ w + 1 \in 1 .. Len(B)
    BY <1>4, <1>5
  <2>2. B[w + 1][1].n = n
    BY <2>1, <1>10, Zenon
  <2>3. QED
    BY <2>1, <2>2, <1>6
<1>12. PICK s \in Seq(Sendable) : s = sent
  BY <1>2 DEF Written
<1>13. /\ \A i \in 1 .. w : B[i][1].n <= Len(s) => s[B[i][1].n] = B[i][1]
       /\ \A i \in 1 .. Len(B) : B[i][1].n \in Nat \ {0}
       /\ \A i \in 1 .. v : i \in 1 .. w \/ i \in w + 1 .. Len(B)
       /\ v \in 0 .. Len(B) /\ B[v][1].n = n
  <2>1. \A i \in 1 .. w : B[i][1].n <= Len(s) => s[B[i][1].n] = B[i][1]
    BY <1>2, <1>12 DEF Written
  <2>2. \A i \in 1 .. Len(B) : B[i][1].n \in Nat \ {0}
    BY ByteParts DEF Sendable
  <2>3. v \in 0 .. Len(B) /\ v \in w + 1 .. Len(B)
    BY <1>8
  <2>4. \A i \in 1 .. v : i \in 1 .. w \/ i \in w + 1 .. Len(B)
    BY <1>8
  <2>5. QED
    BY <2>1, <2>2, <2>3, <2>4, <1>10
\* A message ends only at the end of what is to be written.
<1>14. ASSUME NEW i \in w + 1 .. Len(B) - 1
       PROVE  ~ EndsAt(B, i)
  <2>1. i \in 1 .. Len(B) - 1 /\ i \in w + 1 .. Len(B) /\ i + 1 \in w + 1 .. Len(B)
    OBVIOUS
  <2>2. EndsAt(B, i) => B[i + 1][1].n = B[i][1].n + 1
    BY <1>2, <2>1 DEF Framed, InOrder
  <2>3. B[i][1].n = n /\ B[i + 1][1].n = n
    BY <1>10, <2>1
  <2>4. QED
    BY <2>2, <2>3
<1>15. \A i \in 1 .. w : EndsAt(B, i) => B[i][1].n <= Len(s)
  BY <1>2, <1>12 DEF Written
<1>16. CASE k = Len(unsent)
  \* The message is whole.
  <2>1. sent' = Append(s, m) /\ v = Len(B)
    BY <1>7, <1>8, <1>12, <1>16
  <2>2. /\ sent' \in Seq(Sendable) /\ Len(sent') = n /\ sent'[n] = m
        /\ \A i \in 1 .. Len(s) : sent'[i] = s[i]
    BY <2>1, <1>6, <1>10, <1>12
  <2>3. ASSUME NEW i \in 1 .. v, B[i][1].n <= Len(sent')
        PROVE  sent'[B[i][1].n] = B[i][1]
    <3>1. i \in 1 .. Len(B)
      BY <1>8, <2>1
    <3>2. CASE B[i][1].n = n
      <4>1. B[i][1] = m
        BY <1>2, <1>6, <1>11, <3>1, <3>2 DEF Framed, Distinct
      <4>2. QED
        BY <2>2, <3>2, <4>1
    <3>3. CASE B[i][1].n # n
      <4>1. i \in 1 .. w
        BY <1>10, <1>13, <3>3
      <4>2. B[i][1].n \in 1 .. Len(s) /\ B[i][1].n <= Len(s)
        BY <1>10, <1>12, <1>13, <2>2, <2>3, <3>1, <3>3
      <4>3. QED
        BY <1>13, <2>2, <4>1, <4>2, Zenon
    <3>4. QED
      BY <3>2, <3>3
  <2>4. Written(B, v, d, sent')
    <3>1. v # 0 /\ EndsAt(B, v) /\ Len(sent') = B[v][1].n
      <4>1. v # 0
        BY <1>8
      <4>2. EndsAt(B, v)
        BY <1>10, <2>1, Zenon
      <4>3. Len(sent') = B[v][1].n
        BY <1>13, <2>2, Zenon
      <4>4. QED
        BY <4>1, <4>2, <4>3
    <3>2. \A i \in 1 .. v : EndsAt(B, i) => B[i][1].n <= Len(sent')
      BY <1>10, <2>1, <2>2
    <3>3. QED
      BY <1>13, <2>2, <2>3, <3>1, <3>2 DEF Written
  <2>5. Writing(B, v)'
    BY <1>5, <1>9, <1>10, <1>16, <2>1, <2>2, <1>2 DEF Writing
  <2>6. QED
    BY <1>6, <1>9, <1>12, <2>1, <2>4, <2>5, <1>2 DEF StreamOK
<1>17. CASE k # Len(unsent)
  <2>1. sent' = s /\ v \in 1 .. Len(B) - 1 /\ Len(s) = n - 1
    BY <1>7, <1>8, <1>10, <1>12, <1>17
  <2>2. ~ EndsAt(B, v) /\ \A i \in 1 .. v : EndsAt(B, i) => B[i][1].n <= Len(sent')
    <3>1. v \in w + 1 .. Len(B) - 1
      BY <1>8, <2>1
    <3>2. \A i \in 1 .. v : i \in 1 .. w \/ i \in w + 1 .. Len(B) - 1
      BY <1>8, <2>1
    <3>3. QED
      BY <1>14, <1>15, <2>1, <3>1, <3>2
  <2>3. \A i \in 1 .. v : B[i][1].n <= Len(sent') => sent'[B[i][1].n] = B[i][1]
    BY <1>10, <1>13, <2>1
  <2>4. Written(B, v, d, sent')
    <3>1. v # 0 /\ Len(sent') = B[v][1].n - 1
      BY <1>13, <2>1
    <3>2. v \in 0 .. Len(B) /\ sent' \in Seq(Sendable)
      BY <1>13, <2>1
    <3>3. QED
      BY <2>2, <2>3, <3>1, <3>2 DEF Written
  <2>5. Writing(B, v)'
    <3>1. msgs' = n /\ Len(sent') + 1 = n /\ ~ closed'
      BY <1>2, <1>5, <1>10, <1>12, <2>1 DEF Writing
    <3>2. \A i \in v + 1 .. Len(B) : i \in w + 1 .. Len(B)
      BY <1>8
    <3>3. QED
      BY <1>9, <1>10, <1>17, <3>1, <3>2 DEF Writing
  <2>6. QED
    BY <1>9, <1>12, <2>1, <2>4, <2>5, <1>2 DEF StreamOK
<1>18. QED
  BY <1>16, <1>17

\* What the sender still holds when it closes its end never gets to the reader.
LEMMA SenderClosesStream ==
  ASSUME NEW h, NEW d \in Nat, StreamOK(h, d), SenderCloses
  PROVE  StreamOK(h, d)'
<1>1. PICK B \in Seq(SentByte), w \in Nat :
        B = InFlight(h) /\ w = Len(h) + Len(stream)
  BY DEF StreamOK, Framed
<1>2. /\ h \in Seq(SentByte) /\ stream \in Seq(SentByte) /\ unsent \in Seq(SentByte)
      /\ Framed(B, d) /\ Written(B, w, d, sent) /\ Writing(B, w)
  BY <1>1 DEF StreamOK
<1>3. unsent' = <<>> /\ closed' = TRUE /\ UNCHANGED <<msgs, stream, sent>>
  BY DEF SenderCloses
<1>4. PICK a \in Seq(SentByte) :
        a = h \o stream /\ Len(a) = w /\ B = a \o unsent /\ w \in 0 .. Len(B)
  BY <1>1, <1>2, ConcatParts DEF InFlight, Written
<1>5. PICK P \in Seq(SentByte) :
        /\ P = SubSeq(B, 1, w) /\ Framed(P, d) /\ Len(P) = w
        /\ \A i \in 1 .. w : P[i] = B[i]
  <2>1. Framed(SubSeq(B, 1, w), d) => SubSeq(B, 1, w) \in Seq(SentByte)
    BY DEF Framed
  <2>2. QED
    BY <1>2, <1>4, <2>1, PrefixFramed, Zenon
<1>6. P = a
  <2>1. \A i \in 1 .. Len(a) : B[i] = a[i]
    BY <1>2, <1>4, ConcatParts
  <2>2. \A i \in 1 .. Len(P) : P[i] = a[i]
    BY <1>4, <1>5, <2>1
  <2>3. QED
    BY <1>4, <1>5, <2>2, SeqEqual
<1>7. InFlight(h)' = P /\ (Len(h) + Len(stream))' = w
  BY <1>1, <1>3, <1>4, <1>6 DEF InFlight
<1>8. Written(P, w, d, sent')
  <2>1. w > 0 => P[w] = B[w]
    BY <1>5
  <2>2. \A i \in 1 .. w : P[i][1].n <= Len(sent') => sent'[P[i][1].n] = P[i][1]
    BY <1>2, <1>3, <1>5, Zenon DEF Written
  <2>3. \A i \in 1 .. w : EndsAt(P, i) => P[i][1].n <= Len(sent')
    BY <1>2, <1>3, <1>5 DEF Written, EndsAt
  <2>4. Len(sent') = IF w = 0 THEN d
                     ELSE IF EndsAt(P, w) THEN P[w][1].n ELSE P[w][1].n - 1
    BY <1>2, <1>3, <2>1 DEF Written, EndsAt
  <2>5. w \in 0 .. Len(P) /\ sent' \in Seq(Sendable)
    BY <1>2, <1>3, <1>5 DEF Written
  <2>6. QED
    BY <2>2, <2>3, <2>4, <2>5 DEF Written
<1>9. Writing(P, w)'
  <2>1. \A i \in 1 .. Len(P) : i \in 1 .. Len(B) /\ P[i] = B[i]
    BY <1>4, <1>5
  <2>2. \A i \in 1 .. Len(P) : P[i][1].n <= msgs'
    BY <1>2, <1>3, <2>1 DEF Writing
  <2>3. QED
    BY <1>3, <2>2 DEF Writing
<1>10. QED
  BY <1>2, <1>3, <1>5, <1>7, <1>8, <1>9 DEF StreamOK

\* A read() moves bytes to the reader.
LEMMA ReadStream ==
  ASSUME NEW h, NEW d, StreamOK(h, d), NEW k \in 1 .. Len(stream),
         NEW g, g = h \o SubSeq(stream, 1, k),
         stream' = SubSeq(stream, k + 1, Len(stream)),
         UNCHANGED <<msgs, unsent, closed, sent>>
  PROVE  StreamOK(g, d)'
<1>1. PICK s \in Seq(SentByte) : s = stream
  BY DEF StreamOK
<1>2. h \in Seq(SentByte) /\ k \in 0 .. Len(s)
  BY <1>1 DEF StreamOK
<1>3. PICK p, r :
        /\ p = SubSeq(s, 1, k) /\ p \in Seq(SentByte) /\ Len(p) = k
        /\ r = SubSeq(s, k + 1, Len(s)) /\ r \in Seq(SentByte) /\ Len(r) = Len(s) - k
        /\ (h \o p) \o r = h \o s
  <2>1. /\ SubSeq(s, 1, k) \in Seq(SentByte) /\ Len(SubSeq(s, 1, k)) = k
        /\ SubSeq(s, k + 1, Len(s)) \in Seq(SentByte)
        /\ Len(SubSeq(s, k + 1, Len(s))) = Len(s) - k
        /\ (h \o SubSeq(s, 1, k)) \o SubSeq(s, k + 1, Len(s)) = h \o s
    BY <1>2, MoveBytes
  <2>2. QED
    BY <2>1, Zenon
<1>4. stream' = r /\ g = h \o p /\ g \in Seq(SentByte) /\ Len(g) = Len(h) + k
  BY <1>1, <1>2, <1>3, ConcatParts
<1>5. g \o stream' = h \o stream /\ Len(g) + Len(stream') = Len(h) + Len(stream)
  <2>1. Len(h) \in Nat /\ Len(s) \in Nat /\ k \in Int
    BY <1>2
  <2>2. g \o stream' = h \o stream
    BY <1>1, <1>3, <1>4, Zenon
  <2>3. Len(g) = Len(h) + k /\ Len(stream') = Len(s) - k
    BY <1>3, <1>4, Zenon
  <2>4. (Len(h) + k) + (Len(s) - k) = Len(h) + Len(s)
    BY <2>1
  <2>5. QED
    BY <1>1, <2>2, <2>3, <2>4, Zenon
<1>6. InFlight(g)' = InFlight(h)
  BY <1>5 DEF InFlight
<1>7. Written(InFlight(h), Len(h) + Len(stream), d, sent)
      /\ Writing(InFlight(h), Len(h) + Len(stream)) /\ Framed(InFlight(h), d)
  BY DEF StreamOK
<1>8. Writing(InFlight(g), Len(g) + Len(stream))'
  BY <1>5, <1>6, <1>7 DEF Writing
<1>9. QED
  BY <1>3, <1>4, <1>5, <1>6, <1>7, <1>8 DEF StreamOK

\* The message at the front of the bytes h, and what is behind it.
Front(h) == h[1][1]
Behind(h) == SubSeq(h, Size(Front(h)) + 1, Len(h))

\* A reader that has a whole message at its front has the next one that was sent,
\* and is left with the bytes of those behind it.
LEMMA DeliverStream ==
  ASSUME NEW h, NEW d \in Nat, StreamOK(h, d), h # <<>>, Size(Front(h)) <= Len(h)
  PROVE  /\ Front(h) \in Sendable
         /\ \A j \in 1 .. Size(Front(h)) : h[j] = <<Front(h), j>>
         /\ d < Len(sent) /\ sent[d + 1] = Front(h)
         /\ StreamOK(Behind(h), d + 1)
<1> SUFFICES ASSUME NEW m, m = h[1][1], Size(m) <= Len(h),
                    NEW g, g = SubSeq(h, Size(m) + 1, Len(h))
             PROVE  /\ m \in Sendable
                    /\ \A j \in 1 .. Size(m) : h[j] = <<m, j>>
                    /\ d < Len(sent) /\ sent[d + 1] = m
                    /\ StreamOK(g, d + 1)
  BY DEF Front, Behind
<1>1. PICK B \in Seq(SentByte), w \in Nat :
        B = InFlight(h) /\ w = Len(h) + Len(stream)
  BY DEF StreamOK, Framed
<1>2. /\ h \in Seq(SentByte) /\ stream \in Seq(SentByte) /\ unsent \in Seq(SentByte)
      /\ Framed(B, d) /\ Written(B, w, d, sent) /\ Writing(B, w)
  BY <1>1 DEF StreamOK
<1>3. PICK a \in Nat \ {0}, b \in Nat, c \in Nat :
        /\ a = Len(h) /\ b = Len(stream) /\ c = Len(unsent)
        /\ w = a + b /\ Len(B) = w + c
        /\ \A i \in 1 .. a : B[i] = h[i]
        /\ \A i \in 1 .. b : B[a + i] = stream[i]
        /\ \A i \in 1 .. c : B[w + i] = unsent[i]
  <2>1. Len(h) \in Nat \ {0} /\ Len(stream) \in Nat /\ Len(unsent) \in Nat
    BY <1>2, EmptySeq
  <2>2. /\ Len(B) = Len(h) + Len(stream) + Len(unsent)
        /\ \A i \in 1 .. Len(h) : B[i] = h[i]
        /\ \A i \in 1 .. Len(stream) : B[Len(h) + i] = stream[i]
        /\ \A i \in 1 .. Len(unsent) : B[Len(h) + Len(stream) + i] = unsent[i]
    BY <1>1, <1>2, WhereBytesAre
  <2>3. QED
    BY <1>1, <2>1, <2>2, Zenon
<1>4. B[1] = h[1] /\ B # <<>>
  BY <1>3
<1>5. PICK z \in Nat \ {0} :
        /\ z = Size(m) /\ z <= a /\ m \in Sendable /\ m.n = d + 1
        /\ \A j \in 1 .. z : B[j] = <<m, j>> /\ h[j] = <<m, j>>
  <2>1. /\ m \in Sendable /\ m.n = d + 1
        /\ \A j \in 1 .. Size(m) : j <= Len(B) => B[j] = <<m, j>>
    BY <1>2, <1>4, FirstMessage
  <2>2. PICK z \in Nat \ {0} : z = Size(m)
    BY <2>1, MessageSizes
  <2>3. z <= a
    BY <1>3, <2>2
  <2>4. \A j \in 1 .. z : j <= Len(B) /\ j \in 1 .. a
    BY <1>3, <2>3
  <2>5. \A j \in 1 .. z : B[j] = <<m, j>> /\ h[j] = <<m, j>>
    BY <1>3, <2>1, <2>2, <2>4
  <2>6. QED
    BY <2>1, <2>2, <2>3, <2>5, Zenon
<1>6. z \in 1 .. w /\ z \in 0 .. a /\ z <= Len(B) /\ B[z] = <<m, z>> /\ EndsAt(B, z)
  BY <1>3, <1>5 DEF EndsAt
<1>7. d < Len(sent) /\ sent[d + 1] = m
  <2>1. B[z][1].n <= Len(sent) /\ sent[B[z][1].n] = B[z][1]
    BY <1>2, <1>6 DEF Written
  <2>2. B[z][1] = m /\ Len(sent) \in Nat
    BY <1>2, <1>6 DEF Written
  <2>3. QED
    BY <1>5, <2>1, <2>2
<1>8. PICK R \in Seq(SentByte) :
        /\ Framed(R, d + 1) /\ Len(R) = Len(B) - z
        /\ \A i \in 1 .. Len(B) - z : R[i] = B[z + i]
  <2>1. z = Size(B[1][1])
    BY <1>4, <1>5
  <2>2. /\ Framed(SubSeq(B, z + 1, Len(B)), d + 1)
        /\ Len(SubSeq(B, z + 1, Len(B))) = Len(B) - z
        /\ \A i \in 1 .. Len(B) - z : SubSeq(B, z + 1, Len(B))[i] = B[z + i]
    <3>1. Framed(B, d) /\ B # <<>> /\ z <= Len(B)
      BY <1>2, <1>4, <1>6, Zenon
    <3>2. QED
      BY <2>1, <3>1, RestFramed
  <2>3. QED
    BY <2>2, Zenon DEF Framed
<1>9. PICK e \in Nat : e = a - z /\ e + z = a
  <2>1. a - z \in Nat /\ (a - z) + z = a
    BY <1>5
  <2>2. QED
    BY <2>1, Zenon
<1>10. g \in Seq(SentByte) /\ Len(g) = e /\ \A i \in 1 .. e : g[i] = h[z + i]
  <2>1. z \in 0 .. Len(h) /\ g = SubSeq(h, z + 1, Len(h))
    BY <1>3, <1>5, <1>6
  <2>2. /\ g \in Seq(SentByte) /\ Len(g) = Len(h) - z
        /\ \A i \in 1 .. Len(h) - z : g[i] = h[z + i]
    <3>1. h \in Seq(SentByte)
      BY <1>2, Zenon
    <3>2. PICK f : f = SubSeq(h, z + 1, Len(h))
      OBVIOUS
    <3>3. /\ f \in Seq(SentByte) /\ Len(f) = Len(h) - z
          /\ \A i \in 1 .. Len(h) - z : f[i] = h[z + i]
      BY <2>1, <3>1, <3>2, CutParts, Zenon
    <3>4. QED
      BY <2>1, <3>2, <3>3, Zenon
  <2>3. QED
    BY <1>3, <1>9, <2>2
<1>11. PICK v \in Nat : v = e + b /\ v + z = w /\ v + c = Len(B) - z
  <2>1. w = a + b /\ Len(B) = w + c /\ e + z = a
    BY <1>3, <1>9, Zenon
  <2>2. e + b \in Nat /\ (e + b) + z = w /\ (e + b) + c = Len(B) - z
    BY <2>1
  <2>3. QED
    BY <2>2, Zenon
<1>12. PICK C \in Seq(SentByte) :
         /\ C = InFlight(g) /\ Len(C) = v + c
         /\ \A i \in 1 .. e : C[i] = g[i]
         /\ \A i \in 1 .. b : C[e + i] = stream[i]
         /\ \A i \in 1 .. c : C[v + i] = unsent[i]
  <2>1. /\ InFlight(g) \in Seq(SentByte)
        /\ Len(InFlight(g)) = e + b + c
        /\ \A i \in 1 .. e : InFlight(g)[i] = g[i]
        /\ \A i \in 1 .. b : InFlight(g)[e + i] = stream[i]
        /\ \A i \in 1 .. c : InFlight(g)[e + b + i] = unsent[i]
    BY <1>2, <1>3, <1>10, WhereBytesAre
  <2>2. QED
    BY <1>11, <2>1, Zenon
<1>13. Len(R) = v + c /\ Len(C) = Len(R)
  BY <1>8, <1>11, <1>12
<1>14. ASSUME NEW i \in 1 .. v + c
       PROVE  C[i] = R[i]
  <2> i \in Nat /\ i >= 1 /\ i <= v + c
    OBVIOUS
  <2>1. R[i] = B[z + i]
    BY <1>8, <1>11
  <2>2. CASE i <= e
    <3>1. i \in 1 .. e /\ z + i \in 1 .. a
      BY <2>2, <1>9
    <3>2. C[i] = h[z + i] /\ B[z + i] = h[z + i]
      BY <3>1, <1>3, <1>10, <1>12
    <3>3. QED
      BY <2>1, <3>2
  <2>3. CASE e < i /\ i <= v
    <3> DEFINE j == i - e
    <3>1. j \in 1 .. b /\ i = e + j /\ z + i = a + j
      <4>1. e + z = a /\ v = e + b
        BY <1>9, <1>11
      <4>2. QED
        BY <2>3, <4>1
    <3> HIDE DEF j
    <3>2. C[i] = stream[j] /\ B[z + i] = stream[j]
      BY <3>1, <1>3, <1>12
    <3>3. QED
      BY <2>1, <3>2
  <2>4. CASE v < i
    <3> DEFINE j == i - v
    <3>1. j \in 1 .. c /\ i = v + j /\ z + i = w + j
      <4>1. v + z = w
        BY <1>11
      <4>2. QED
        BY <2>4, <4>1
    <3> HIDE DEF j
    <3>2. C[i] = unsent[j] /\ B[z + i] = unsent[j]
      BY <3>1, <1>3, <1>12
    <3>3. QED
      BY <2>1, <3>2
  <2>5. QED
    BY <2>2, <2>3, <2>4
<1>15. InFlight(g) = R
  BY <1>12, <1>13, <1>14, SeqEqual
<1>16. \A i \in 1 .. v : z + i \in 1 .. w /\ R[i] = B[z + i]
  <2> SUFFICES ASSUME NEW i \in 1 .. v
               PROVE  z + i \in 1 .. w /\ R[i] = B[z + i]
    OBVIOUS
  <2>1. z + i \in 1 .. w /\ i \in 1 .. Len(B) - z
    BY <1>11
  <2>2. QED
    BY <2>1, <1>8
<1>17. Written(R, v, d + 1, sent)
  <2>1. v \in 0 .. Len(R) /\ sent \in Seq(Sendable)
    BY <1>2, <1>13 DEF Written
  <2>2. CASE v = 0
    <3>1. w = z /\ w # 0
      BY <2>2, <1>11
    <3>2. Len(sent) = B[z][1].n
      BY <1>2, <1>6, <3>1 DEF Written
    <3>3. Len(sent) = d + 1
      BY <1>5, <1>6, <3>2
    <3>4. QED
      BY <2>1, <2>2, <3>3 DEF Written
  <2>3. CASE v # 0
    <3>1. R[v] = B[w] /\ w # 0
      <4>1. v \in 1 .. v /\ z + v = w /\ w # 0
        BY <2>3, <1>11
      <4>2. QED
        BY <4>1, <1>16
    <3>2. Len(sent) = IF EndsAt(R, v) THEN R[v][1].n ELSE R[v][1].n - 1
      BY <1>2, <3>1 DEF Written, EndsAt
    <3>3. \A i \in 1 .. v : EndsAt(R, i) => R[i][1].n <= Len(sent)
      BY <1>2, <1>16 DEF Written, EndsAt
    <3>4. \A i \in 1 .. v : R[i][1].n <= Len(sent) => sent[R[i][1].n] = R[i][1]
      BY <1>2, <1>16, Zenon DEF Written
    <3>5. QED
      BY <2>1, <2>3, <3>2, <3>3, <3>4 DEF Written
  <2>4. QED
    BY <2>2, <2>3
<1>18. Writing(R, v)
  <2>1. ASSUME NEW i \in 1 .. v + c
        PROVE  z + i \in 1 .. Len(B) /\ R[i] = B[z + i] /\ (i > v => z + i \in w + 1 .. Len(B))
    <3>1. Len(B) = w + c /\ v + c = Len(B) - z /\ v + z = w
      BY <1>3, <1>11, Zenon
    <3>2. z + i \in 1 .. Len(B) /\ (i > v => z + i \in w + 1 .. Len(B))
      BY <3>1
    <3>3. R[i] = B[z + i]
      BY <3>1, <1>8
    <3>4. QED
      BY <3>2, <3>3
  <2>2. \A i \in 1 .. Len(R) : R[i][1].n <= msgs
    BY <1>2, <1>13, <2>1 DEF Writing
  <2>3. \A i \in v + 1 .. Len(R) : unsent # <<>> => R[i][1].n = msgs
    <3>1. \A i \in v + 1 .. Len(R) : i \in 1 .. v + c /\ i > v
      BY <1>13
    <3>2. QED
      BY <1>2, <2>1, <3>1 DEF Writing
  <2>4. unsent # <<>> => EndsAt(R, Len(R))
    <3>1. unsent # <<>> => v + c \in 1 .. v + c /\ z + (v + c) = Len(B)
      BY <1>2, <1>3, <1>11, EmptySeq
    <3>2. QED
      BY <1>2, <1>13, <2>1, <3>1 DEF Writing, EndsAt
  <2>5. v > 0 => R[v] = B[w] /\ w > 0
    <3>1. v > 0 => v \in 1 .. v /\ z + v = w /\ w > 0
      BY <1>11
    <3>2. QED
      BY <3>1, <1>16
  <2>6. QED
    BY <1>2, <2>2, <2>3, <2>4, <2>5 DEF Writing, EndsAt
<1>19. v = Len(g) + Len(stream)
  BY <1>3, <1>10, <1>11
<1>20. QED
  BY <1>2, <1>5, <1>7, <1>8, <1>10, <1>15, <1>17, <1>18, <1>19 DEF StreamOK

\* A reader with no whole message, when no more bytes come, has delivered all
\* that was sent.
LEMMA CaughtUp ==
  ASSUME NEW h, NEW d \in Nat, StreamOK(h, d), stream = <<>>, closed,
         h # <<>> => Len(h) < Size(h[1][1])
  PROVE  Len(sent) = d
<1>1. h \in Seq(SentByte) /\ unsent = <<>>
  BY DEF StreamOK, Writing
<1>2. InFlight(h) = h /\ Len(h) + Len(stream) = Len(h)
  BY <1>1 DEF InFlight
<1>3. Framed(h, d) /\ Written(h, Len(h), d, sent)
  BY <1>2 DEF StreamOK
<1>4. CASE h = <<>>
  BY <1>3, <1>4 DEF Written
<1>5. CASE h # <<>>
  <2>1. /\ h[1][1] \in Sendable /\ h[1][1].n = d + 1 /\ Size(h[1][1]) \in Nat
        /\ \A j \in 1 .. Size(h[1][1]) : j <= Len(h) => h[j] = <<h[1][1], j>>
    BY <1>3, <1>5, FirstMessage, MessageSizes
  <2>2. Len(h) \in Nat \ {0}
    BY <1>1, <1>5, EmptySeq
  <2>3. h[Len(h)] = <<h[1][1], Len(h)>>
    BY <1>5, <2>1, <2>2
  <2>4. ~ EndsAt(h, Len(h)) /\ h[Len(h)][1].n = d + 1
    BY <1>5, <2>1, <2>2, <2>3 DEF EndsAt
  <2>5. QED
    BY <1>3, <2>2, <2>4 DEF Written
<1>6. QED
  BY <1>4, <1>5

\* If any message was sent that is not delivered, it is the one whose first bytes
\* the reader holds, be they all of it or not.
LEMMA NextSent ==
  ASSUME NEW h, NEW d \in Nat, StreamOK(h, d), h # <<>>, d < Len(sent)
  PROVE  sent[d + 1] = Front(h)
<1>1. PICK B \in Seq(SentByte) : B = InFlight(h)
  BY DEF StreamOK, Framed
<1>2. /\ h \in Seq(SentByte) /\ stream \in Seq(SentByte) /\ unsent \in Seq(SentByte)
      /\ Framed(B, d) /\ Written(B, Len(h) + Len(stream), d, sent)
  BY <1>1 DEF StreamOK
<1>3. Len(h) \in Nat \ {0} /\ Len(stream) \in Nat /\ Len(unsent) \in Nat
  BY <1>2, EmptySeq
<1>4. /\ Len(B) = Len(h) + Len(stream) + Len(unsent)
      /\ \A i \in 1 .. Len(h) : B[i] = h[i]
  BY <1>1, <1>2, WhereBytesAre
<1>5. B[1] = h[1] /\ B # <<>>
  BY <1>3, <1>4
<1>6. B[1][1].n = d + 1 /\ B[1][1] = Front(h)
  BY <1>2, <1>5, FirstMessage DEF Front
<1>7. 1 \in 1 .. Len(h) + Len(stream) /\ d + 1 <= Len(sent)
  <2>1. Len(sent) \in Nat
    BY <1>2 DEF Written
  <2>2. QED
    BY <1>3, <2>1
<1>8. QED
  BY <1>2, <1>6, <1>7 DEF Written
=============================================================================
