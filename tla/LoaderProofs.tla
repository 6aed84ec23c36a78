---------------------------- MODULE LoaderProofs ----------------------------
(***************************************************************************)
(* The generator and load_data, for every number of samples and shards,    *)
(* every file and every failure: what the first pass counts is what the    *)
(* second one fills, a row without an empty field is loaded as written,    *)
(* nothing leaks, the shards hold every sample once, and the loader takes  *)
(* each of them.  Lines are read by counting positions, so the first       *)
(* lemmas are about counting the elements of a set of numbers in order.    *)
(***************************************************************************)
EXTENDS ShardLoading, FiniteSetTheorems, SequenceTheorems, TLAPS

-----------------------------------------------------------------------------
(* Counting.                                                               *)

\* Every set of natural numbers but the empty one has a least element.
LEMMA LeastNumber ==
  ASSUME NEW T, T \subseteq Nat, T # {}
  PROVE  \E n \in T : \A m \in T : n <= m
<1>1. PICK R : R = OpToRel(<, Nat)
  OBVIOUS
<1>2. IsWellFoundedOn(R, Nat)
  BY <1>1, NatLessThanWellFounded
<1>3. PICK n \in T : \A m \in T : <<m, n>> \notin R
  BY <1>2, WFMin
<1>4. \A m \in T : ~ (m < n)
  BY <1>1, <1>3 DEF OpToRel
<1>5. QED
  BY <1>4

\* How many elements of S come up to m.
UpTo(S, m) == Cardinality({q \in S : q <= m})

\* One more number is counted if it is in the set.
LEMMA CountStep ==
  ASSUME NEW n \in Nat, NEW S \in SUBSET (1 .. n)
  PROVE  /\ IsFiniteSet(S)
         /\ UpTo(S, 0) = 0 /\ UpTo(S, n) = Cardinality(S)
         /\ \A m \in Nat : /\ UpTo(S, m) \in Nat
                           /\ UpTo(S, m + 1) = IF m + 1 \in S THEN UpTo(S, m) + 1 ELSE UpTo(S, m)
<1>0. \A q \in S : q \in Nat /\ 1 <= q /\ q <= n
  OBVIOUS
<1>1. IsFiniteSet(S)
  <2>1. IsFiniteSet(1 .. n)
    BY FS_Interval
  <2>2. QED
    BY <2>1, FS_Subset
<1>2. \A m : IsFiniteSet({q \in S : q <= m})
  BY <1>1, FS_Subset
<1>3. UpTo(S, 0) = 0
  <2>1. \A q \in S : ~ (q <= 0)
    BY <1>0
  <2>2. {q \in S : q <= 0} = {}
    BY <2>1, Zenon
  <2>3. QED
    BY <2>2, FS_EmptySet DEF UpTo
<1>4. UpTo(S, n) = Cardinality(S)
  <2>1. {q \in S : q <= n} = S
    BY <1>0
  <2>2. QED
    BY <2>1 DEF UpTo
<1>5. ASSUME NEW m \in Nat
      PROVE  /\ UpTo(S, m) \in Nat
             /\ UpTo(S, m + 1) = IF m + 1 \in S THEN UpTo(S, m) + 1 ELSE UpTo(S, m)
  <2>1. PICK L : L = {q \in S : q <= m} /\ IsFiniteSet(L) /\ Cardinality(L) \in Nat
    BY <1>2, FS_CardinalityType
  <2>2. CASE m + 1 \in S
    <3>1. {q \in S : q <= m + 1} = L \cup {m + 1} /\ m + 1 \notin L
      <4>1. /\ \A q \in S : q <= m + 1 <=> (q <= m \/ q = m + 1)
            /\ ~ (m + 1 <= m)
        BY <1>0
      <4>2. m + 1 <= m + 1
        OBVIOUS
      <4>3. QED
        BY <2>1, <2>2, <4>1, <4>2, Zenon
    <3>2. Cardinality(L \cup {m + 1}) = Cardinality(L) + 1
      BY <2>1, <3>1, FS_AddElement
    <3>3. QED
      BY <2>1, <2>2, <3>1, <3>2 DEF UpTo
  <2>3. CASE m + 1 \notin S
    <3>1. {q \in S : q <= m + 1} = L
      <4>1. \A q \in S : q <= m + 1 <=> (q <= m \/ q = m + 1)
        BY <1>0
      <4>2. \A q \in S : q <= m + 1 <=> q <= m
        BY <2>3, <4>1, Zenon
      <4>3. QED
        BY <2>1, <4>2, Zenon
    <3>2. QED
      BY <2>1, <2>3, <3>1 DEF UpTo
  <2>4. QED
    BY <2>2, <2>3
<1>6. QED
  BY <1>1, <1>3, <1>4, <1>5

\* Counting further never gives less, and gives more if an element is passed.
LEMMA CountGrows ==
  ASSUME NEW n \in Nat, NEW S \in SUBSET (1 .. n), NEW a \in Nat, NEW b \in Nat, a <= b
  PROVE  /\ UpTo(S, a) <= UpTo(S, b)
         /\ \A p \in S : a < p /\ p <= b => UpTo(S, a) < UpTo(S, b)
<1>1. PICK A, B : /\ A = {q \in S : q <= a} /\ B = {q \in S : q <= b}
                  /\ A \subseteq B /\ \A p \in S : a < p /\ p <= b => p \in B /\ p \notin A
  <2>1. \A q \in S : q \in Nat
    OBVIOUS
  <2>2. /\ {q \in S : q <= a} \subseteq {q \in S : q <= b}
        /\ \A p \in S : a < p /\ p <= b =>
             p \in {q \in S : q <= b} /\ p \notin {q \in S : q <= a}
    <3>1. \A q \in S : (q <= a => q <= b) /\ (a < q => ~ (q <= a))
      BY <2>1
    <3>2. QED
      BY <3>1, Zenon
  <2>3. QED
    BY <2>2, Zenon
<1>2. IsFiniteSet(B)
  BY <1>1, CountStep, FS_Subset
<1>3. /\ IsFiniteSet(A) /\ Cardinality(A) <= Cardinality(B)
      /\ Cardinality(A) = Cardinality(B) => A = B
  BY <1>1, <1>2, FS_Subset
<1>4. Cardinality(A) \in Nat /\ Cardinality(B) \in Nat
  BY <1>2, <1>3, FS_CardinalityType
<1>5. QED
  BY <1>1, <1>3, <1>4 DEF UpTo

\* The element with exactly c others before it exists.
LEMMA CountReached ==
  ASSUME NEW n \in Nat, NEW S \in SUBSET (1 .. n), NEW c \in Nat, c < Cardinality(S)
  PROVE  \E p \in S : UpTo(S, p - 1) = c /\ UpTo(S, p) = c + 1
<1>1. PICK m \in Nat : UpTo(S, m) > c /\ \A k \in Nat : UpTo(S, k) > c => m <= k
  <2> DEFINE T == {k \in Nat : UpTo(S, k) > c}
  <2>1. n \in T
    BY CountStep
  <2>2. PICK m \in T : \A k \in T : m <= k
    BY <2>1, LeastNumber
  <2>3. QED
    BY <2>2
<1>2. m # 0
  <2>1. UpTo(S, 0) = 0
    BY CountStep
  <2>2. QED
    BY <1>1, <2>1
<1>3. PICK k \in Nat : m = k + 1
  BY <1>2
<1>4. UpTo(S, k) \in Nat /\ UpTo(S, k) <= c
  <2>1. UpTo(S, k) \in Nat
    BY CountStep
  <2>2. ~ (m <= k)
    BY <1>3
  <2>3. ~ (UpTo(S, k) > c)
    BY <1>1, <2>2, Zenon
  <2>4. QED
    BY <2>1, <2>3
<1>5. UpTo(S, k + 1) = IF k + 1 \in S THEN UpTo(S, k) + 1 ELSE UpTo(S, k)
  BY CountStep
<1>6. m \in S /\ UpTo(S, m) = c + 1 /\ UpTo(S, k) = c /\ m - 1 = k
  BY <1>1, <1>3, <1>4, <1>5
<1>7. QED
  BY <1>6

\* The elements that come before p.
LEMMA CountBefore ==
  ASSUME NEW n \in Nat, NEW S \in SUBSET (1 .. n), NEW p \in Nat \ {0}
  PROVE  Cardinality({q \in S : q < p}) = UpTo(S, p - 1)
<1>1. \A q \in S : q \in Nat
  OBVIOUS
<1>2. \A q \in S : q < p <=> q <= p - 1
  BY <1>1
<1>3. {q \in S : q < p} = {q \in S : q <= p - 1}
  BY <1>2, Zenon
<1>4. QED
  BY <1>3 DEF UpTo

\* Two elements have different numbers of others before them.
LEMMA CountTellsApart ==
  ASSUME NEW n \in Nat, NEW S \in SUBSET (1 .. n), NEW p \in S, NEW q \in S,
         UpTo(S, p) = UpTo(S, q)
  PROVE  p = q
<1>1. ASSUME NEW a \in S, NEW b \in S, a < b
      PROVE  UpTo(S, a) < UpTo(S, b)
  <2>1. a \in Nat /\ b \in Nat /\ a <= b /\ b <= b
    BY <1>1
  <2>2. QED
    BY <1>1, <2>1, CountGrows
<1>2. p \in Nat /\ q \in Nat
  OBVIOUS
<1>3. UpTo(S, p) \in Nat /\ UpTo(S, q) \in Nat
  BY <1>2, CountStep
<1>4. ~ (p < q) /\ ~ (q < p)
  BY <1>1, <1>3
<1>5. QED
  BY <1>2, <1>4


-----------------------------------------------------------------------------
(* Lines.                                                                  *)

Lines == Seq({",", "v", " ", "\n"})

\* Where the commas of a line are.
CommasOf(line) == {p \in DOMAIN line : line[p] = ","}

LEMMA LineParts ==
  ASSUME NEW line \in Lines
  PROVE  /\ Len(line) \in Nat /\ DOMAIN line = 1 .. Len(line)
         /\ CommasOf(line) \in SUBSET (1 .. Len(line))
         /\ Tokens(line) \in SUBSET (1 .. Len(line))
         /\ IsFiniteSet(CommasOf(line)) /\ IsFiniteSet(Tokens(line))
         /\ Commas(line) = Cardinality(CommasOf(line)) /\ Commas(line) \in Nat
         /\ Cardinality(Tokens(line)) \in Nat
<1>1. Len(line) \in Nat /\ DOMAIN line = 1 .. Len(line)
  BY LenProperties DEF Lines
<1>2. CommasOf(line) \in SUBSET (1 .. Len(line)) /\ Tokens(line) \in SUBSET (1 .. Len(line))
  BY <1>1, Zenon DEF CommasOf, Tokens
<1>3. IsFiniteSet(CommasOf(line)) /\ IsFiniteSet(Tokens(line))
  BY <1>1, <1>2, CountStep
<1>4. Commas(line) = Cardinality(CommasOf(line))
  BY Zenon DEF Commas, CommasOf
<1>5. QED
  BY <1>1, <1>2, <1>3, <1>4, FS_CardinalityType

\* The places behind those of A.
Behind(A) == {q + 1 : q \in A}

LEMMA ShiftCount ==
  ASSUME NEW A, A \subseteq Nat, IsFiniteSet(A)
  PROVE  IsFiniteSet(Behind(A)) /\ Cardinality(Behind(A)) = Cardinality(A)
<1> DEFINE shift == [q \in A |-> q + 1]
<1>1. shift \in Bijection(A, Behind(A))
  <2>1. shift \in [A -> Behind(A)]
    BY DEF Behind
  <2>2. \A a, b \in A : shift[a] = shift[b] => a = b
    BY A \subseteq Nat
  <2>3. \A b \in Behind(A) : \E a \in A : shift[a] = b
    BY DEF Behind
  <2>4. QED
    BY <2>1, <2>2, <2>3 DEF Bijection, Injection, Surjection, IsInjective
<1>2. ExistsBijection(A, Behind(A))
  BY <1>1, Zenon DEF ExistsBijection
<1>3. QED
  BY <1>2, FS_Bijection

\* strtok_r finds one token more than there are commas, at most.
LEMMA TokenCount ==
  ASSUME NEW line \in Lines
  PROVE  /\ Tokens(line) \subseteq {1} \cup Behind(CommasOf(line))
         /\ Cardinality(Tokens(line)) <= Commas(line) + 1
         /\ ~ HasEmptyField(line) => Tokens(line) = {1} \cup Behind(CommasOf(line))
<1> DEFINE B == {1} \cup Behind(CommasOf(line))
<1>1. Tokens(line) \subseteq B
  <2> SUFFICES ASSUME NEW p \in Tokens(line), p # 1
               PROVE  p \in Behind(CommasOf(line))
    BY Zenon
  <2>1. p \in 1 .. Len(line) /\ Len(line) \in Nat /\ DOMAIN line = 1 .. Len(line)
    BY LineParts
  <2>2. p > 1 /\ p - 1 \in 1 .. Len(line) /\ p = (p - 1) + 1
    BY <2>1
  <2>3. p - 1 \in CommasOf(line)
    BY <2>1, <2>2, Zenon DEF CommasOf, Tokens
  <2>4. QED
    BY <2>2, <2>3, Zenon DEF Behind
<1>2. IsFiniteSet(B) /\ Cardinality(B) = Commas(line) + 1
  <2>1. PICK C : C = CommasOf(line) /\ C \subseteq Nat /\ 0 \notin C
                 /\ IsFiniteSet(C) /\ Cardinality(C) = Commas(line) /\ Commas(line) \in Nat
    BY LineParts
  <2>2. IsFiniteSet(Behind(C)) /\ Cardinality(Behind(C)) = Commas(line)
    BY <2>1, ShiftCount
  <2>3. 1 \notin Behind(C)
    BY <2>1 DEF Behind
  <2>4. B = Behind(C) \cup {1}
    BY <2>1, Zenon
  <2>5. QED
    BY <2>1, <2>2, <2>3, <2>4, FS_AddElement
<1>3. /\ Cardinality(Tokens(line)) <= Cardinality(B)
      /\ Cardinality(B) = Cardinality(Tokens(line)) => B = Tokens(line)
  BY <1>1, <1>2, FS_Subset
<1>4. QED
  BY <1>1, <1>2, <1>3, Zenon DEF HasEmptyField

\* Token c is the one with c others before it.
LEMMA TokenIs ==
  ASSUME NEW line \in Lines, NEW c \in Nat, NEW p \in Tokens(line),
         UpTo(Tokens(line), p - 1) = c
  PROVE  Token(line, c) = p
<1>1. PICK T \in SUBSET (1 .. Len(line)) : T = Tokens(line) /\ Len(line) \in Nat
  BY LineParts
<1>2. ASSUME NEW q \in T
      PROVE  /\ Cardinality({r \in T : r < q}) = UpTo(T, q - 1)
             /\ UpTo(T, q) = UpTo(T, q - 1) + 1
  <2>1. q \in Nat \ {0} /\ q - 1 \in Nat /\ (q - 1) + 1 = q
    BY <1>1, <1>2
  <2>2. UpTo(T, (q - 1) + 1) = IF (q - 1) + 1 \in T THEN UpTo(T, q - 1) + 1 ELSE UpTo(T, q - 1)
    BY <1>1, <2>1, CountStep
  <2>3. QED
    BY <1>1, <1>2, <2>1, <2>2, CountBefore
<1>3. p \in T /\ Cardinality({r \in T : r < p}) = c
  BY <1>1, <1>2
<1>4. ASSUME NEW q \in T, Cardinality({r \in T : r < q}) = c
      PROVE  q = p
  <2>1. UpTo(T, q) = UpTo(T, p)
    BY <1>1, <1>2, <1>3, <1>4
  <2>2. QED
    BY <1>1, <1>3, <2>1, CountTellsApart
<1>5. (CHOOSE q \in T : Cardinality({r \in T : r < q}) = c) = p
  BY <1>3, <1>4, Zenon
<1>6. QED
  BY <1>1, <1>5, Zenon DEF Token

\* Every comma ends a field: the next starts behind it.
LEMMA FieldIs ==
  ASSUME NEW line \in Lines, NEW c \in Nat
  PROVE  /\ c = 0 => FieldStart(line, c) = 1
         /\ \A p \in CommasOf(line) : UpTo(CommasOf(line), p) = c => FieldStart(line, c) = p + 1
<1>1. PICK C \in SUBSET (1 .. Len(line)) :
        C = CommasOf(line) /\ Len(line) \in Nat /\ DOMAIN line = 1 .. Len(line)
  BY LineParts
<1>2. PICK D : D = {p \in C : UpTo(C, p) <= c}
  OBVIOUS
<1>3. FieldStart(line, c) = 1 + Max({0} \cup D)
  <2>1. ASSUME NEW p \in DOMAIN line
        PROVE  {q \in 1 .. p : line[q] = ","} = {q \in C : q <= p}
    <3>1. p \in 1 .. Len(line)
      BY <1>1, <2>1
    <3>2. \A q : q \in 1 .. p <=> q \in 1 .. Len(line) /\ q <= p
      BY <1>1, <3>1
    <3>3. QED
      BY <1>1, <3>2, Zenon DEF CommasOf
  <2>2. \A p \in DOMAIN line : Cardinality({q \in 1 .. p : line[q] = ","}) = UpTo(C, p)
    BY <2>1, Zenon DEF UpTo
  <2>3. {p \in DOMAIN line : line[p] = ","
           /\ Cardinality({q \in 1 .. p : line[q] = ","}) <= c} = D
    BY <1>1, <1>2, <2>2, Zenon DEF CommasOf
  <2>4. QED
    BY <2>3, Zenon DEF FieldStart
<1>4. \A p \in C : p \in Nat \ {0}
  BY <1>1
<1>5. ASSUME c = 0
      PROVE  FieldStart(line, c) = 1
  <2>1. ASSUME NEW p \in C
        PROVE  UpTo(C, p) > 0
    <3>1. UpTo(C, 0) < UpTo(C, p) /\ UpTo(C, 0) = 0
      <4>1. p \in Nat /\ 0 <= p /\ 0 < p /\ p <= p
        BY <1>4
      <4>2. UpTo(C, 0) < UpTo(C, p)
        BY <1>1, <4>1, CountGrows
      <4>3. QED
        BY <1>1, <4>2, CountStep
    <3>2. QED
      BY <1>1, <1>4, <3>1, CountStep
  <2>2. D = {}
    <3>1. \A p \in C : UpTo(C, p) \in Nat
      BY <1>1, <1>4, CountStep
    <3>2. \A p \in C : ~ (UpTo(C, p) <= c)
      BY <1>5, <2>1, <3>1
    <3>3. QED
      BY <1>2, <3>2, Zenon
  <2>3. {0} \cup D = {0} /\ 0 >= 0
    BY <2>2
  <2>4. Max({0} \cup D) = 0
    BY <2>3, Zenon DEF Max
  <2>5. QED
    BY <1>3, <2>4
<1>6. ASSUME NEW p \in C, UpTo(C, p) = c
      PROVE  FieldStart(line, c) = p + 1
  <2>1. p \in Nat \ {0} /\ p >= 0 /\ p >= p
    BY <1>4
  <2>2. c <= c
    OBVIOUS
  <2>3. p \in D
    BY <1>2, <1>6, <2>2, Zenon
  <2>4. ASSUME NEW q \in D
        PROVE  q \in Nat /\ p >= q
    <3>1. q \in C /\ q \in Nat /\ UpTo(C, q) <= c
      BY <1>2, <1>4
    <3>2. p < q => UpTo(C, p) < UpTo(C, q)
      <4>1. p < q => p <= q /\ q <= q
        BY <2>1, <3>1
      <4>2. QED
        BY <1>1, <2>1, <3>1, <4>1, CountGrows
    <3>3. UpTo(C, q) \in Nat
      BY <1>1, <3>1, CountStep
    <3>4. QED
      BY <1>6, <2>1, <3>1, <3>2, <3>3
  <2>5. ASSUME NEW q \in {0} \cup D, q >= p
        PROVE  q = p
    BY <2>1, <2>4, <2>5
  <2>6. p \in {0} \cup D /\ \A q \in {0} \cup D : p >= q
    BY <2>1, <2>3, <2>4, Zenon
  <2>7. Max({0} \cup D) = p
    BY <2>5, <2>6, Zenon DEF Max
  <2>8. QED
    BY <1>3, <2>1, <2>7
<1>7. QED
  BY <1>1, <1>5, <1>6

\* In a line without an empty field the tokens of strtok_r are the fields.
LEMMA TokenIsField ==
  ASSUME NEW line \in Lines, ~ HasEmptyField(line), NEW c \in 0 .. Commas(line)
  PROVE  Token(line, c) = FieldStart(line, c) /\ FieldStart(line, c) \in Nat \ {0}
<1>1. PICK C \in SUBSET (1 .. Len(line)), n \in Nat :
        C = CommasOf(line) /\ n = Len(line) /\ C \subseteq 1 .. n /\ Commas(line) = Cardinality(C)
  BY LineParts
<1>2. Tokens(line) = {1} \cup Behind(C) /\ Tokens(line) \in SUBSET (1 .. n)
  BY <1>1, TokenCount, LineParts
<1>3. CASE c = 0
  <2>1. \A q \in Tokens(line) : ~ (q <= 0)
    BY <1>2
  <2>2. {q \in Tokens(line) : q <= 0} = {}
    BY <2>1, Zenon
  <2>3. UpTo(Tokens(line), 1 - 1) = 0
    BY <2>2, FS_EmptySet DEF UpTo
  <2>4. Token(line, 0) = 1
    BY <1>2, <2>3, TokenIs
  <2>5. QED
    BY <1>3, <2>4, FieldIs
<1>4. CASE c # 0
  <2>1. c \in Nat /\ c - 1 \in Nat /\ c - 1 < Cardinality(C) /\ c = (c - 1) + 1
    BY <1>1, <1>4, LineParts
  <2>2. PICK p \in C : UpTo(C, p - 1) = c - 1 /\ UpTo(C, p) = c
    <3>1. PICK b \in Nat : b = c - 1 /\ b < Cardinality(C) /\ b + 1 = c
      BY <2>1
    <3>2. \E p \in C : UpTo(C, p - 1) = b /\ UpTo(C, p) = b + 1
      BY <1>1, <3>1, CountReached
    <3>3. QED
      BY <3>1, <3>2
  <2>3. p \in Nat \ {0}
    BY <1>1
  <2>4. {q \in Tokens(line) : q <= p} = {1} \cup Behind({q \in C : q <= p - 1})
    <3>1. \A q \in C : q \in Nat /\ (q + 1 <= p <=> q <= p - 1)
      BY <1>1, <2>3
    <3>2. 1 <= p
      BY <2>3
    <3>3. QED
      BY <1>2, <3>1, <3>2, Zenon DEF Behind
  <2>5. PICK A : A = {q \in C : q <= p - 1} /\ A \subseteq Nat /\ 0 \notin A
                 /\ IsFiniteSet(A) /\ Cardinality(A) = c - 1
    <3>1. C \subseteq Nat /\ 0 \notin C /\ IsFiniteSet(C)
      BY <1>1, CountStep
    <3>2. IsFiniteSet({q \in C : q <= p - 1})
      BY <3>1, FS_Subset
    <3>3. QED
      BY <2>2, <3>1, <3>2, Zenon DEF UpTo
  <2>6. 1 \notin Behind(A)
    BY <2>5 DEF Behind
  <2>7. Cardinality(Behind(A) \cup {1}) = c
    <3>1. IsFiniteSet(Behind(A)) /\ Cardinality(Behind(A)) = c - 1
      BY <2>5, ShiftCount
    <3>2. Cardinality(Behind(A) \cup {1}) = Cardinality(Behind(A)) + 1
      BY <2>6, <3>1, FS_AddElement
    <3>3. QED
      BY <2>1, <3>1, <3>2
  <2>8. {1} \cup Behind(A) = Behind(A) \cup {1} /\ (p + 1) - 1 = p
    BY <2>3
  <2>9. UpTo(Tokens(line), (p + 1) - 1) = c
    BY <2>4, <2>5, <2>7, <2>8, Zenon DEF UpTo
  <2>10. p + 1 \in Tokens(line)
    BY <1>2 DEF Behind
  <2>11. Token(line, c) = p + 1
    BY <2>1, <2>9, <2>10, TokenIs
  <2>12. FieldStart(line, c) = p + 1
    BY <1>1, <2>1, <2>2, FieldIs
  <2>13. QED
    BY <2>3, <2>11, <2>12
<1>5. QED
  BY <1>3, <1>4
-----------------------------------------------------------------------------
(* The invariant of the generator.                                         *)

\* The rows of shard k: what count is when main is at index k - 1.
CountOf(k) == base + (IF k - 1 < rem THEN 1 ELSE 0)

GenTypes ==
  /\ num_features \in Nat /\ total_samples \in Nat /\ num_shards \in Nat
  /\ gen_pc \in {"unused", "args", "open", "write", "done", "failed"}
  /\ s \in Nat /\ i \in Nat
  /\ shards \in Seq(Seq(Nat))

\* The shards before s are complete, and shard s has i rows so far.
Written ==
  /\ gen_pc \in {"unused", "args"} => s = 0 /\ shards = <<>>
  /\ gen_pc \in {"open", "write", "done"} =>
       /\ num_features > 0 /\ total_samples > 0 /\ num_shards > 0
       /\ s <= num_shards
       /\ Len(shards) = IF gen_pc = "write" THEN s + 1 ELSE s
       /\ \A k \in 1 .. s : Len(shards[k]) = CountOf(k)
       /\ \A k \in DOMAIN shards : \A r \in DOMAIN shards[k] : shards[k][r] = Columns
  /\ gen_pc = "write" => s < num_shards /\ i <= count /\ Len(shards[s + 1]) = i
  /\ gen_pc = "done" => s = num_shards

GenInv == GenTypes /\ Written

-----------------------------------------------------------------------------
(* The invariant of load_data.                                             *)

FileInv ==
  /\ file \in Seq(Lines) /\ pos \in 0 .. Len(file)
  /\ pc \in {"idle", "open", "count", "parse", "ok", "failed"}
  /\ pc = "idle" => file = <<>>
  /\ pc # "idle" => gen_pc \in {"unused", "done"}

HaveColumns(n) == \A p \in SampleLines(file) : p <= n => Commas(file[p]) = features

\* The first pass: what has been counted is what the lines so far have.
Counted ==
  pc \in {"idle", "open", "count"} =>
    /\ pc # "count" => pos = 0
    /\ samples = SamplesIn(file, pos) /\ row = 0
    /\ \/ samples = 0 /\ features = -1
       \/ samples > 0 /\ features \in Nat \ {0} /\ HaveColumns(pos)

\* The second pass: the arrays have the size of what the first one counted.
Sized ==
  pc \in {"parse", "ok"} =>
    /\ samples \in Nat \ {0} /\ features \in Nat \ {0}
    /\ samples = SamplesIn(file, Len(file)) /\ HaveColumns(Len(file))
    /\ row = SamplesIn(file, pos)
    /\ DOMAIN X = 0 .. samples * features - 1
    /\ y = [r \in 0 .. samples - 1 |-> y[r]]
    /\ pc = "ok" => pos = Len(file)

Refused == pc = "failed" => fault \/ ~ Accepts(file)

\* Line p is in its row of the arrays as it was written.
RowLoaded(p) ==
  LET r == SamplesIn(file, p - 1) IN
    /\ \A c \in 0 .. features - 1 :
         X[r * features + c] = Number(file[p], FieldStart(file[p], c))
    /\ y[r] = Number(file[p], FieldStart(file[p], features))

\* What the second pass has behind it stays in the arrays.
Loaded ==
  pc \in {"parse", "ok"} =>
    \A p \in SampleLines(file) : p <= pos /\ ~ HasEmptyField(file[p]) => RowLoaded(p)

LoadInv == FileInv /\ Counted /\ Sized /\ Refused /\ Loaded

LEMMA InitGenInv == Init => GenInv
<1> SUFFICES ASSUME Init PROVE GenInv
  OBVIOUS
<1>1. /\ num_features \in 0 .. MaxArg /\ total_samples \in 0 .. MaxArg /\ num_shards \in 0 .. MaxArg
      /\ gen_pc \in {"args", "unused"} /\ s = 0 /\ i = 0 /\ shards = <<>>
  BY MaxArgAssumption DEF Init, GenInit, GenUnused, MaxArgAssumption
<1>2. GenTypes
  BY <1>1, MaxArgAssumption DEF GenTypes, MaxArgAssumption
<1>3. Written
  BY <1>1 DEF Written
<1>4. QED
  BY <1>2, <1>3 DEF GenInv

LEMMA GenStep ==
  ASSUME GenInv, GenNext
  PROVE  GenInv'
<1> USE DEF GenInv
<1>1. /\ num_features \in Nat /\ total_samples \in Nat /\ num_shards \in Nat
      /\ s \in Nat /\ i \in Nat /\ UNCHANGED args
      /\ UNCHANGED <<num_features, total_samples, num_shards>>
  BY DEF GenTypes, GenNext, ArgsFail, CheckArgs, OpenShard, WriteRow, CloseShard, Exit, args
<1>2. /\ base' = base /\ rem' = rem /\ Columns' = Columns
      /\ \A k : CountOf(k)' = CountOf(k)
  BY <1>1 DEF base, rem, Columns, CountOf
<1>3. Columns \in Nat
  BY <1>1 DEF Columns
<1>4. CASE ArgsFail \/ CheckArgs
  BY <1>1, <1>4 DEF ArgsFail, CheckArgs, GenTypes, Written
<1>5. CASE OpenShard
  <2>1. /\ gen_pc = "open" /\ s < num_shards /\ Len(shards) = s /\ UNCHANGED s
        /\ num_features > 0 /\ total_samples > 0 /\ num_shards > 0
        /\ \A k \in 1 .. s : Len(shards[k]) = CountOf(k)
        /\ \A k \in DOMAIN shards : \A r \in DOMAIN shards[k] : shards[k][r] = Columns
    BY <1>5 DEF OpenShard, Written
  <2>2. CASE gen_pc' = "failed" /\ UNCHANGED <<shards, i>>
    BY <1>1, <2>1, <2>2 DEF GenTypes, Written
  <2>3. CASE shards' = Append(shards, <<>>) /\ i' = 0 /\ gen_pc' = "write"
    <3>1. /\ shards' \in Seq(Seq(Nat)) /\ Len(shards') = s + 1 /\ shards'[s + 1] = <<>>
          /\ \A k \in 1 .. s : shards'[k] = shards[k]
          /\ DOMAIN shards' = 1 .. s + 1 /\ DOMAIN shards = 1 .. s
      BY <1>1, <2>1, <2>3 DEF GenTypes
    <3>2. \A k \in 1 .. s + 1 : k \in 1 .. s \/ k = s + 1
      BY <1>1
    <3>3. \A k \in DOMAIN shards' : \A r \in DOMAIN shards'[k] : shards'[k][r] = Columns
      <4>1. DOMAIN shards'[s + 1] = {}
        BY <3>1
      <4>2. ASSUME NEW k \in 1 .. s + 1, NEW r \in DOMAIN shards'[k]
            PROVE  shards'[k][r] = Columns
        <5>1. CASE k \in 1 .. s
          BY <2>1, <3>1, <4>2, <5>1, Zenon
        <5>2. CASE k = s + 1
          BY <4>1, <4>2, <5>2, Zenon
        <5>3. QED
          BY <3>2, <5>1, <5>2, Zenon
      <4>3. QED
        BY <3>1, <4>2, Zenon
    <3>4. \A k \in 1 .. s : Len(shards'[k]) = CountOf(k)
      BY <2>1, <3>1, Zenon
    <3>5. 0 <= count
      <4>1. base \in Nat
        BY <1>1, <2>1 DEF base
      <4>2. QED
        BY <4>1 DEF count
    <3>6. count' = count /\ Len(<<>>) = 0
      BY <1>2, <2>1 DEF count
    <3>7. GenTypes'
      BY <1>1, <2>1, <2>3, <3>1 DEF GenTypes
    <3>8. Written'
      BY <1>1, <1>2, <2>1, <2>3, <3>1, <3>3, <3>4, <3>5, <3>6 DEF Written
    <3>9. QED
      BY <3>7, <3>8
  <2>4. QED
    BY <1>5, <2>2, <2>3 DEF OpenShard
<1>6. CASE WriteRow
  <2>1. /\ gen_pc = "write" /\ gen_pc' = "write" /\ i < count /\ i' = i + 1 /\ UNCHANGED s
        /\ shards' = [shards EXCEPT ![s + 1] = Append(@, Columns)]
        /\ Len(shards) = s + 1 /\ Len(shards[s + 1]) = i /\ s < num_shards
        /\ num_features > 0 /\ total_samples > 0 /\ num_shards > 0
        /\ \A k \in 1 .. s : Len(shards[k]) = CountOf(k)
        /\ \A k \in DOMAIN shards : \A r \in DOMAIN shards[k] : shards[k][r] = Columns
    BY <1>6 DEF WriteRow, Written
  <2>2. /\ shards \in Seq(Seq(Nat)) /\ DOMAIN shards = 1 .. s + 1 /\ s + 1 \in 1 .. s + 1
        /\ shards[s + 1] \in Seq(Nat)
    BY <1>1, <2>1 DEF GenTypes
  <2>3. PICK new \in Seq(Nat) :
          /\ new = Append(shards[s + 1], Columns) /\ Len(new) = i + 1
          /\ DOMAIN new = 1 .. i + 1 /\ new[i + 1] = Columns
          /\ DOMAIN shards[s + 1] = 1 .. i
          /\ \A r \in 1 .. i : new[r] = shards[s + 1][r]
    <3>1. PICK t \in Seq(Nat) : t = shards[s + 1] /\ Len(t) = i
      BY <2>1, <2>2, Zenon
    <3>2. /\ Append(t, Columns) \in Seq(Nat) /\ Len(Append(t, Columns)) = i + 1
          /\ DOMAIN Append(t, Columns) = 1 .. i + 1 /\ Append(t, Columns)[i + 1] = Columns
          /\ DOMAIN t = 1 .. i
          /\ \A r \in 1 .. i : Append(t, Columns)[r] = t[r]
      BY <1>1, <1>3, <3>1
    <3>3. QED
      BY <3>1, <3>2, Zenon
  <2>4. /\ shards' \in Seq(Seq(Nat)) /\ Len(shards') = s + 1 /\ shards'[s + 1] = new
        /\ DOMAIN shards' = 1 .. s + 1
        /\ \A k \in 1 .. s : shards'[k] = shards[k]
    BY <1>1, <2>1, <2>2, <2>3
  <2>5. \A k \in DOMAIN shards' : \A r \in DOMAIN shards'[k] : shards'[k][r] = Columns
    <3>1. \A k \in 1 .. s + 1 : k \in 1 .. s \/ k = s + 1
      BY <1>1
    <3>2. \A r \in 1 .. i + 1 : r \in 1 .. i \/ r = i + 1
      BY <1>1
    <3>3. \A r \in DOMAIN new : new[r] = Columns
      BY <2>1, <2>2, <2>3, <3>2, Zenon
    <3>4. \A k \in 1 .. s : k \in 1 .. s + 1
      BY <1>1
    <3>5. QED
      BY <2>1, <2>2, <2>4, <3>1, <3>3, <3>4, Zenon
  <2>6. \A k \in 1 .. s : Len(shards'[k]) = CountOf(k)
    BY <2>1, <2>4, Zenon
  <2>7. count' = count /\ i + 1 <= count
    <3>1. base \in Nat
      <4>1. num_shards > 0
        BY <2>1
      <4>2. QED
        BY <1>1, <4>1 DEF base
    <3>2. count \in Nat
      BY <3>1 DEF count
    <3>3. QED
      BY <1>1, <1>2, <2>1, <3>2 DEF count
  <2>8. GenTypes'
    BY <1>1, <2>1, <2>4 DEF GenTypes
  <2>9. Written'
    BY <1>1, <1>2, <2>1, <2>3, <2>4, <2>5, <2>6, <2>7 DEF Written
  <2>10. QED
    BY <2>8, <2>9
<1>7. CASE CloseShard
  <2>1. /\ gen_pc = "write" /\ gen_pc' = "open" /\ i = count /\ s' = s + 1 /\ UNCHANGED <<i, shards>>
        /\ Len(shards) = s + 1 /\ Len(shards[s + 1]) = i /\ s < num_shards
        /\ num_features > 0 /\ total_samples > 0 /\ num_shards > 0
        /\ \A k \in 1 .. s : Len(shards[k]) = CountOf(k)
        /\ \A k \in DOMAIN shards : \A r \in DOMAIN shards[k] : shards[k][r] = Columns
    BY <1>7 DEF CloseShard, Written
  <2>2. CountOf(s + 1) = count
    BY <1>1 DEF CountOf, count
  <2>3. \A k \in 1 .. s + 1 : k \in 1 .. s \/ k = s + 1
    BY <1>1
  <2>4. \A k \in 1 .. s + 1 : Len(shards[k]) = CountOf(k)
    BY <2>1, <2>2, <2>3, Zenon
  <2>5. GenTypes'
    BY <1>1, <2>1 DEF GenTypes
  <2>6. Written'
    BY <1>1, <1>2, <2>1, <2>4 DEF Written
  <2>7. QED
    BY <2>5, <2>6
<1>8. CASE Exit
  BY <1>1, <1>2, <1>8 DEF Exit, GenTypes, Written
<1>9. QED
  BY <1>4, <1>5, <1>6, <1>7, <1>8 DEF GenNext

-----------------------------------------------------------------------------
(* LoadInv is an invariant.                                                *)

\* The lines of a file that hold a sample, one by one.
LEMMA SampleParts ==
  ASSUME NEW f \in Seq(Lines)
  PROVE  /\ Len(f) \in Nat /\ DOMAIN f = 1 .. Len(f)
         /\ SampleLines(f) \in SUBSET (1 .. Len(f))
         /\ \A n : SamplesIn(f, n) = UpTo(SampleLines(f), n)
         /\ SamplesIn(f, 0) = 0 /\ \A n \in Nat : SamplesIn(f, n) \in Nat
         /\ \A n \in Nat : n < Len(f) =>
              /\ n + 1 \in 1 .. Len(f) /\ f[n + 1] \in Lines
              /\ Blank(f[n + 1]) => n + 1 \notin SampleLines(f)
                                    /\ SamplesIn(f, n + 1) = SamplesIn(f, n)
              /\ ~ Blank(f[n + 1]) => n + 1 \in SampleLines(f)
                                      /\ SamplesIn(f, n + 1) = SamplesIn(f, n) + 1
<1>1. Len(f) \in Nat /\ DOMAIN f = 1 .. Len(f) /\ \A p \in 1 .. Len(f) : f[p] \in Lines
  BY LenProperties
<1>2. PICK S \in SUBSET (1 .. Len(f)) : S = SampleLines(f)
  BY <1>1, Zenon DEF SampleLines
<1>3. \A n : SamplesIn(f, n) = UpTo(S, n)
  BY <1>2, Zenon DEF SamplesIn, UpTo
<1>4. UpTo(S, 0) = 0 /\ \A n \in Nat : UpTo(S, n) \in Nat
                        /\ UpTo(S, n + 1) = IF n + 1 \in S THEN UpTo(S, n) + 1 ELSE UpTo(S, n)
  BY <1>1, <1>2, CountStep
<1>5. ASSUME NEW n \in Nat, n < Len(f)
      PROVE  /\ n + 1 \in 1 .. Len(f)
             /\ n + 1 \in S <=> ~ Blank(f[n + 1])
  <2>1. n + 1 \in 1 .. Len(f)
    BY <1>1, <1>5
  <2>2. QED
    BY <1>1, <1>2, <2>1, Zenon DEF SampleLines
<1>6. ASSUME NEW n \in Nat, n < Len(f)
      PROVE  /\ n + 1 \in 1 .. Len(f) /\ f[n + 1] \in Lines
             /\ Blank(f[n + 1]) => n + 1 \notin S /\ SamplesIn(f, n + 1) = SamplesIn(f, n)
             /\ ~ Blank(f[n + 1]) => n + 1 \in S /\ SamplesIn(f, n + 1) = SamplesIn(f, n) + 1
  <2>1. n + 1 \in 1 .. Len(f) /\ (n + 1 \in S <=> ~ Blank(f[n + 1]))
    BY <1>5, <1>6
  <2>2. UpTo(S, n + 1) = IF n + 1 \in S THEN UpTo(S, n) + 1 ELSE UpTo(S, n)
    BY <1>4, Zenon
  <2>3. QED
    BY <1>1, <1>3, <2>1, <2>2, Zenon
<1>7. QED
  BY <1>1, <1>2, <1>3, <1>4, <1>6, Zenon

\* A row the generator writes is a line.
LEMMA RowIsLine ==
  ASSUME NEW n \in Nat
  PROVE  Row(n) \in Lines /\ Len(Row(n)) = 2 * n
<1>1. 2 * n \in Nat /\ Row(n) \in [1 .. 2 * n -> {",", "v", " ", "\n"}]
  BY DEF Row
<1>2. Row(n) \in Lines
  BY <1>1, SeqDef, Zenon DEF Lines
<1>3. PICK l \in Nat : l = Len(Row(n)) /\ DOMAIN Row(n) = 1 .. l
  BY <1>2, LenProperties, Zenon DEF Lines
<1>4. PICK m \in Nat : m = 2 * n /\ 1 .. l = 1 .. m
  BY <1>1, <1>3, Zenon
<1>5. l = m
  BY <1>4
<1>6. QED
  BY <1>2, <1>3, <1>4, <1>5, Zenon

LEMMA ShardIsFile ==
  ASSUME GenInv, gen_pc = "done", NEW k \in DOMAIN shards
  PROVE  /\ Columns \in Nat /\ Columns > 1
         /\ FileOf(k) \in Seq(Lines) /\ Len(FileOf(k)) = Len(shards[k])
         /\ \A r \in 1 .. Len(shards[k]) : FileOf(k)[r] = Row(Columns)
<1>1. shards[k] \in Seq(Nat)
  BY DEF GenInv, GenTypes
<1>2. PICK n \in Nat : n = Len(shards[k]) /\ DOMAIN shards[k] = 1 .. n
  BY <1>1, LenProperties
<1>3. \A r \in 1 .. n : shards[k][r] = Columns
  BY <1>2 DEF GenInv, Written
<1>4. Columns \in Nat /\ Columns > 1
  BY DEF Columns, GenInv, GenTypes, Written
<1>5. FileOf(k) = [r \in 1 .. n |-> Row(Columns)]
  BY <1>2, <1>3, Zenon DEF FileOf
<1>6. FileOf(k) \in [1 .. n -> Lines]
  BY <1>4, <1>5, RowIsLine, Zenon
<1>7. FileOf(k) \in Seq(Lines)
  <2>1. \E m \in Nat : FileOf(k) \in [1 .. m -> Lines]
    BY <1>6, Zenon
  <2>2. QED
    BY <2>1, SeqDef, Zenon
<1>8. Len(FileOf(k)) = n
  <2>1. PICK l \in Nat : l = Len(FileOf(k)) /\ DOMAIN FileOf(k) = 1 .. l
    BY <1>7, LenProperties, Zenon
  <2>2. 1 .. l = 1 .. n
    BY <1>6, <2>1, Zenon
  <2>3. QED
    BY <2>1, <2>2
<1>9. QED
  BY <1>2, <1>4, <1>5, <1>7, <1>8, Zenon

LEMMA InitLoadInv == Init => LoadInv
<1> SUFFICES ASSUME Init PROVE LoadInv
  OBVIOUS
<1>1. pc = "idle" /\ file = <<>> /\ pos = 0 /\ samples = 0 /\ features = -1 /\ row = 0
  BY DEF Init, LoadInit
<1>2. file \in Seq(Lines) /\ Len(file) = 0
  BY <1>1
<1>3. SamplesIn(file, pos) = 0
  BY <1>1, <1>2, SampleParts
<1>4. QED
  BY <1>1, <1>2, <1>3 DEF LoadInv, FileInv, Counted, Sized, Refused, Loaded

\* load_data is called, for a shard or another file.
LEMMA CallStep ==
  ASSUME LoadInv, GenInv, CallOnShard \/ CallOnFile, UNCHANGED genVars
  PROVE  LoadInv'
<1> USE DEF LoadInv
<1>1. /\ pc = "idle" /\ pc' = "open" /\ gen_pc \in {"unused", "done"} /\ gen_pc' = gen_pc
      /\ UNCHANGED <<pos, samples, features, row>>
  BY DEF CallOnShard, CallOnFile, Call, genVars
<1>2. file' \in Seq(Lines)
  <2>1. CASE CallOnShard
    BY <2>1, ShardIsFile DEF CallOnShard, Call
  <2>2. CASE CallOnFile
    BY <2>2, FilesAssumption DEF CallOnFile, Call, FilesAssumption, Lines
  <2>3. QED
    BY <2>1, <2>2
<1>3. /\ pos = 0 /\ row = 0 /\ samples = 0 /\ features = -1
  <2>1. file \in Seq(Lines) /\ pos = 0
    BY <1>1 DEF FileInv, Counted
  <2>2. SamplesIn(file, 0) = 0
    BY <2>1, SampleParts
  <2>3. QED
    BY <1>1, <2>1, <2>2 DEF Counted
<1>4. SamplesIn(file', 0) = 0 /\ Len(file') \in Nat
  BY <1>2, SampleParts
<1>5. FileInv'
  BY <1>1, <1>2, <1>3, <1>4 DEF FileInv
<1>6. Counted'
  BY <1>1, <1>3, <1>4 DEF Counted
<1>7. QED
  BY <1>1, <1>5, <1>6 DEF Sized, Refused, Loaded

\* A line of a pass: what it adds to the number of samples so far.
LEMMA NextLine ==
  ASSUME LoadInv, GetLine
  PROVE  /\ pos \in Nat /\ pos + 1 \in 1 .. Len(file) /\ pos' = pos + 1
         /\ Line \in Lines /\ Line = file[pos + 1]
         /\ Blank(Line) => /\ pos + 1 \notin SampleLines(file)
                           /\ SamplesIn(file, pos') = SamplesIn(file, pos)
         /\ ~ Blank(Line) => /\ pos + 1 \in SampleLines(file)
                             /\ SamplesIn(file, pos') = SamplesIn(file, pos) + 1
         /\ SamplesIn(file, pos) \in Nat
         /\ \A p \in SampleLines(file) : p <= pos' <=> (p <= pos \/ p = pos + 1)
<1>1. file \in Seq(Lines) /\ pos \in 0 .. Len(file) /\ pos < Len(file) /\ pos' = pos + 1
  BY DEF LoadInv, FileInv, GetLine
<1>2. pos \in Nat /\ Len(file) \in Nat
  BY <1>1, SampleParts
<1>3. /\ pos + 1 \in 1 .. Len(file) /\ file[pos + 1] \in Lines
      /\ Blank(file[pos + 1]) => pos + 1 \notin SampleLines(file)
                                 /\ SamplesIn(file, pos + 1) = SamplesIn(file, pos)
      /\ ~ Blank(file[pos + 1]) => pos + 1 \in SampleLines(file)
                                   /\ SamplesIn(file, pos + 1) = SamplesIn(file, pos) + 1
      /\ SamplesIn(file, pos) \in Nat
  BY <1>1, <1>2, SampleParts
<1>4. ASSUME NEW p \in SampleLines(file)
      PROVE  p <= pos + 1 <=> (p <= pos \/ p = pos + 1)
  <2>1. p \in 1 .. Len(file)
    BY <1>1, SampleParts
  <2>2. QED
    BY <1>2, <2>1
<1>5. QED
  BY <1>1, <1>2, <1>3, <1>4, Zenon DEF Line

\* Samples have been counted if a line so far holds one.
LEMMA SampleSeen ==
  ASSUME NEW f \in Seq(Lines), NEW n \in Nat
  PROVE  SamplesIn(f, n) # 0 <=> \E p \in SampleLines(f) : p <= n
<1>1. IsFiniteSet({p \in SampleLines(f) : p <= n})
  <2>1. IsFiniteSet(SampleLines(f))
    BY SampleParts, CountStep
  <2>2. QED
    BY <2>1, FS_Subset
<1>2. SamplesIn(f, n) # 0 <=> {p \in SampleLines(f) : p <= n} # {}
  BY <1>1, FS_EmptySet DEF SamplesIn
<1>3. QED
  BY <1>2, Zenon

LEMMA CountPassSteps ==
  ASSUME LoadInv, pc = "count", SkipBlank \/ CountLine, UNCHANGED genVars
  PROVE  LoadInv'
<1> USE DEF LoadInv
<1>1. /\ GetLine /\ pc' = "count" /\ UNCHANGED <<file, row, fault, gen_pc>>
      /\ pos' = pos + 1
  BY DEF SkipBlank, CountLine, GetLine, genVars
<1>2. FileInv'
  <2>1. pos + 1 \in 0 .. Len(file)
    BY <1>1, NextLine
  <2>2. QED
    BY <1>1, <2>1 DEF FileInv
<1>3. /\ samples = SamplesIn(file, pos) /\ row = 0 /\ SamplesIn(file, pos) \in Nat
      /\ \/ samples = 0 /\ features = -1
         \/ samples > 0 /\ features \in Nat \ {0} /\ HaveColumns(pos)
  BY <1>1, NextLine DEF Counted
<1>4. CASE SkipBlank
  <2>1. /\ SamplesIn(file, pos + 1) = SamplesIn(file, pos)
        /\ UNCHANGED <<samples, features>> /\ pos + 1 \notin SampleLines(file)
    BY <1>1, <1>4, NextLine DEF SkipBlank
  <2>2. HaveColumns(pos) => HaveColumns(pos + 1)
    BY <1>1, <2>1, NextLine, Zenon DEF HaveColumns
  <2>3. Counted'
    BY <1>1, <1>3, <2>1, <2>2 DEF Counted, HaveColumns
  <2>4. QED
    BY <1>1, <1>2, <2>3 DEF Sized, Refused, Loaded
<1>5. CASE CountLine
  <2>1. /\ SamplesIn(file, pos + 1) = SamplesIn(file, pos) + 1
        /\ samples' = samples + 1 /\ features' = Commas(Line)
        /\ pos + 1 \in SampleLines(file) /\ ColumnsOK(Line)
        /\ Line = file[pos + 1] /\ Commas(Line) \in Nat
    BY <1>1, <1>5, NextLine, LineParts DEF CountLine
  <2>2. features' \in Nat \ {0}
    BY <1>3, <2>1 DEF ColumnsOK
  <2>3. ASSUME NEW p \in SampleLines(file), p <= pos + 1
        PROVE  Commas(file[p]) = features'
    <3>1. p <= pos \/ p = pos + 1
      BY <1>1, <2>3, NextLine, Zenon
    <3>2. CASE p <= pos
      <4>1. samples # 0
        <5>1. file \in Seq(Lines) /\ pos \in Nat
          BY <1>1, NextLine DEF FileInv
        <5>2. SamplesIn(file, pos) # 0
          BY <2>3, <3>2, <5>1, SampleSeen, Zenon
        <5>3. QED
          BY <1>3, <5>2
      <4>2. HaveColumns(pos) /\ features = Commas(Line)
        BY <1>3, <2>1, <4>1 DEF ColumnsOK
      <4>3. QED
        BY <2>1, <3>2, <4>2, Zenon DEF HaveColumns
    <3>3. CASE p = pos + 1
      BY <2>1, <3>3, Zenon
    <3>4. QED
      BY <3>1, <3>2, <3>3, Zenon
  <2>4. HaveColumns(pos)'
    BY <1>1, <2>3 DEF HaveColumns
  <2>5. Counted'
    BY <1>1, <1>3, <2>1, <2>2, <2>4 DEF Counted
  <2>6. QED
    BY <1>1, <1>2, <2>5 DEF Sized, Refused, Loaded
<1>6. QED
  BY <1>4, <1>5

\* An error return without a fault is for a file that is not a table.
LEMMA RefusalSteps ==
  ASSUME LoadInv, TooFewColumns \/ InconsistentColumns \/ NoSamples, UNCHANGED genVars
  PROVE  LoadInv'
<1> USE DEF LoadInv
<1>1. /\ pc = "count" /\ pc' = "failed" /\ UNCHANGED <<file, pos, fault, gen_pc>>
      /\ file \in Seq(Lines) /\ Len(file) \in Nat /\ pos \in 0 .. Len(file)
  BY SampleParts DEF TooFewColumns, InconsistentColumns, NoSamples, Fail, FileInv, genVars
<1>2. /\ samples = SamplesIn(file, pos) /\ pos \in Nat
      /\ \/ samples = 0 /\ features = -1
         \/ samples > 0 /\ features \in Nat \ {0} /\ HaveColumns(pos)
  BY <1>1 DEF Counted
<1>3. ~ Accepts(file)
  <2>1. CASE TooFewColumns \/ InconsistentColumns
    <3>1. /\ pos < Len(file) /\ ~ Blank(Line) /\ ~ ColumnsOK(Line) /\ Line = file[pos + 1]
      BY <2>1 DEF TooFewColumns, InconsistentColumns, Line
    <3>2. pos + 1 \in SampleLines(file) /\ Line \in Lines
      BY <1>1, <1>2, <3>1, SampleParts
    <3>3. Commas(Line) \in Nat
      BY <3>2, LineParts
    <3>4. CASE samples = 0
      <4>1. ~ (Commas(Line) >= 1)
        BY <1>2, <3>1, <3>4 DEF ColumnsOK
      <4>2. QED
        BY <3>1, <3>2, <4>1, Zenon DEF Accepts
    <3>5. CASE samples # 0
      <4>1. features \in Nat /\ HaveColumns(pos) /\ Commas(Line) # features
        BY <1>2, <3>1, <3>5 DEF ColumnsOK
      <4>2. PICK p \in SampleLines(file) : p <= pos
        BY <1>1, <1>2, <3>5, SampleSeen, Zenon
      <4>3. Commas(file[p]) = features
        BY <4>1, <4>2, Zenon DEF HaveColumns
      <4>4. QED
        BY <3>1, <3>2, <4>1, <4>3, Zenon DEF Accepts
    <3>6. QED
      BY <3>4, <3>5
  <2>2. CASE NoSamples
    <3>1. pos = Len(file) /\ samples = 0
      BY <2>2 DEF NoSamples
    <3>2. ~ \E p \in SampleLines(file) : p <= pos
      BY <1>1, <1>2, <3>1, SampleSeen, Zenon
    <3>3. \A p \in SampleLines(file) : p <= pos
      <4>1. SampleLines(file) \in SUBSET (1 .. Len(file))
        BY <1>1, SampleParts
      <4>2. QED
        BY <1>1, <3>1, <4>1
    <3>4. SampleLines(file) = {}
      BY <3>2, <3>3, Zenon
    <3>5. QED
      BY <3>4 DEF Accepts
  <2>3. QED
    BY <2>1, <2>2
<1>4. Accepts(file)' = Accepts(file)
  BY <1>1
<1>5. Refused'
  BY <1>1, <1>3, <1>4 DEF Refused
<1>6. FileInv'
  BY <1>1 DEF FileInv
<1>7. QED
  BY <1>1, <1>5, <1>6 DEF Counted, Sized, Loaded

\* The arrays are allocated for what was counted, or load_data gives up.
LEMMA AllocateStep ==
  ASSUME LoadInv, Allocate \/ AllocationFails, UNCHANGED genVars
  PROVE  LoadInv'
<1> USE DEF LoadInv
<1>1. /\ pc = "count" /\ pos = Len(file) /\ samples > 0
      /\ UNCHANGED <<file, samples, features, row, gen_pc>>
      /\ \/ /\ X' = [n \in 0 .. samples * features - 1 |-> Uninitialised]
            /\ y' = [n \in 0 .. samples - 1 |-> Uninitialised]
            /\ pc' = "parse" /\ pos' = 0
         \/ pc' = "failed" /\ fault' = TRUE /\ UNCHANGED pos
  BY Zenon DEF Allocate, AllocationFails, Fail, genVars
<1>2. /\ file \in Seq(Lines) /\ Len(file) \in Nat /\ SamplesIn(file, 0) = 0
      /\ SamplesIn(file, pos) \in Nat
  BY <1>1, SampleParts DEF FileInv
<1>3. /\ samples = SamplesIn(file, pos) /\ row = 0 /\ samples \in Nat \ {0}
      /\ features \in Nat \ {0} /\ HaveColumns(Len(file))
  BY <1>1, <1>2 DEF Counted
<1>4. FileInv'
  BY <1>1, <1>2 DEF FileInv
<1>5. CASE pc' = "failed"
  BY <1>1, <1>4, <1>5 DEF Counted, Sized, Refused, Loaded
<1>6. CASE pc' = "parse"
  <2>1. /\ X' = [n \in 0 .. samples * features - 1 |-> Uninitialised]
        /\ y' = [n \in 0 .. samples - 1 |-> Uninitialised] /\ pos' = 0
    BY <1>1, <1>6
  <2>2. DOMAIN X' = 0 .. samples * features - 1 /\ y' = [n \in 0 .. samples - 1 |-> y'[n]]
    BY <2>1, Zenon
  <2>3. HaveColumns(Len(file))'
    BY <1>1, <1>3 DEF HaveColumns
  <2>4. Sized'
    BY <1>1, <1>2, <1>3, <1>6, <2>1, <2>2, <2>3 DEF Sized
  <2>5. \A p \in SampleLines(file) : ~ (p <= 0)
    BY <1>2, SampleParts
  <2>6. Loaded'
    BY <1>1, <2>1, <2>5 DEF Loaded
  <2>7. QED
    BY <1>1, <1>4, <1>6, <2>4, <2>6 DEF Counted, Refused
<1>7. QED
  BY <1>1, <1>5, <1>6

\* load_data opens the file, or comes to the end of the second pass.
LEMMA OpenAndReturn ==
  ASSUME LoadInv, OpenFile \/ Return, UNCHANGED genVars
  PROVE  LoadInv'
<1> USE DEF LoadInv
<1>1. CASE OpenFile
  <2>1. /\ pc = "open" /\ UNCHANGED <<file, pos, samples, features, row, gen_pc>>
        /\ pc' = "count" \/ (pc' = "failed" /\ fault' = TRUE)
    BY <1>1 DEF OpenFile, genVars
  <2>2. HaveColumns(pos)' = HaveColumns(pos)
    BY <2>1 DEF HaveColumns
  <2>3. FileInv'
    BY <2>1 DEF FileInv
  <2>4. QED
    BY <2>1, <2>2, <2>3 DEF Counted, Sized, Refused, Loaded
<1>2. CASE Return
  <2>1. /\ pc = "parse" /\ pc' = "ok" /\ pos = Len(file)
        /\ UNCHANGED <<file, pos, samples, features, row, X, y, gen_pc>>
    BY <1>2 DEF Return, genVars
  <2>2. HaveColumns(Len(file))' = HaveColumns(Len(file))
    BY <2>1 DEF HaveColumns
  <2>3. FileInv'
    BY <2>1 DEF FileInv
  <2>4. Sized'
    BY <2>1, <2>2 DEF Sized
  <2>5. \A p : RowLoaded(p)' = RowLoaded(p)
    BY <2>1 DEF RowLoaded
  <2>6. Loaded'
    BY <2>1, <2>5 DEF Loaded
  <2>7. QED
    BY <2>1, <2>3, <2>4, <2>6 DEF Counted, Refused
<1>3. QED
  BY <1>1, <1>2

\* Rows of the array do not overlap.
LEMMA CellsApart ==
  ASSUME NEW a \in Nat, NEW b \in Nat, NEW f \in Nat, NEW c \in Nat, NEW d \in Nat,
         a < b, c < f
  PROVE  a * f + c < b * f + d /\ a * f + c \in 0 .. b * f - 1
<1>1. PICK k \in Nat : b = a + 1 + k
  <2>1. b - a - 1 \in Nat /\ b = a + 1 + (b - a - 1)
    OBVIOUS
  <2>2. QED
    BY <2>1
<1>2. b * f = a * f + f + k * f
  BY <1>1
<1>3. a * f \in Nat /\ k * f \in Nat
  BY <1>1
<1>4. PICK u, v, w \in Nat : u = a * f /\ v = k * f /\ w = b * f /\ w = u + f + v
  <2>1. b * f \in Nat
    OBVIOUS
  <2>2. QED
    BY <1>2, <1>3, <2>1
<1>5. u + c < w + d /\ u + c \in 0 .. w - 1
  BY <1>4
<1>6. QED
  BY <1>4, <1>5

\* The row of the line that is parsed is one of the counted ones.
LEMMA LineCounted ==
  ASSUME LoadInv, pc = "parse", pos < Len(file), ~ Blank(Line)
  PROVE  /\ samples \in Nat /\ features \in Nat \ {0} /\ row \in Nat /\ row < samples
         /\ Line \in Lines /\ Commas(Line) = features
         /\ row = SamplesIn(file, pos)
<1>1. /\ samples \in Nat \ {0} /\ features \in Nat \ {0} /\ HaveColumns(Len(file))
      /\ samples = SamplesIn(file, Len(file)) /\ row = SamplesIn(file, pos)
      /\ file \in Seq(Lines) /\ pos \in 0 .. Len(file)
  BY DEF LoadInv, Sized, FileInv
<1>2. PICK S \in SUBSET (1 .. Len(file)), n \in Nat :
        /\ n = Len(file) /\ S = SampleLines(file)
        /\ \A m : SamplesIn(file, m) = UpTo(S, m)
  BY <1>1, SampleParts
<1>3. pos \in Nat /\ pos < n /\ pos <= n /\ pos < pos + 1 /\ pos + 1 <= n
  BY <1>1, <1>2
<1>4. pos + 1 \in S /\ Line \in Lines /\ Line = file[pos + 1] /\ SamplesIn(file, pos) \in Nat
  BY <1>1, <1>2, <1>3, SampleParts DEF Line
<1>5. Commas(Line) = features
  BY <1>1, <1>2, <1>3, <1>4, Zenon DEF HaveColumns
<1>6. UpTo(S, pos) < UpTo(S, n)
  BY <1>2, <1>3, <1>4, CountGrows
<1>7. row < samples
  BY <1>1, <1>2, <1>6
<1>8. QED
  BY <1>1, <1>4, <1>5, <1>7

\* What ParseLine does to the arrays.
LEMMA ParsedCells ==
  ASSUME LoadInv, ParseLine
  PROVE  /\ DOMAIN X' = DOMAIN X /\ y' = [r \in 0 .. samples - 1 |-> y'[r]]
         /\ \A n \in DOMAIN X : (\A c \in 0 .. features - 1 : n # Cell(c)) => X'[n] = X[n]
         /\ \A r \in 0 .. samples - 1 : r # row => y'[r] = y[r]
         /\ ~ HasEmptyField(Line) =>
              /\ \A c \in 0 .. features - 1 :
                   X'[Cell(c)] = Number(Line, FieldStart(Line, c))
              /\ y'[row] = Number(Line, FieldStart(Line, features))
<1> DEFINE tokens == Cardinality(Tokens(Line))
           cells == {c \in 0 .. features - 1 : c < tokens}
           value(c) == Number(Line, Token(Line, c))
<1>1. /\ pc = "parse" /\ GetLine /\ ~ Blank(Line)
      /\ X' = [n \in DOMAIN X |->
                 IF \E c \in cells : n = Cell(c)
                 THEN value(CHOOSE c \in cells : n = Cell(c)) ELSE X[n]]
      /\ y' = [y EXCEPT ![row] = IF tokens > features THEN value(tokens - 1) ELSE @]
  BY Zenon DEF ParseLine
<1>2. /\ samples \in Nat /\ features \in Nat \ {0} /\ row \in Nat /\ row < samples
      /\ Line \in Lines /\ Commas(Line) = features
  BY <1>1, LineCounted DEF GetLine
<1>3. /\ DOMAIN X = 0 .. samples * features - 1
      /\ y = [r \in 0 .. samples - 1 |-> y[r]]
  BY <1>1 DEF LoadInv, Sized
<1>4. DOMAIN X' = DOMAIN X
  BY <1>1, Zenon
<1>5. /\ DOMAIN y = 0 .. samples - 1 /\ y' = [r \in 0 .. samples - 1 |-> y'[r]]
      /\ \A r \in 0 .. samples - 1 : r # row => y'[r] = y[r]
      /\ y'[row] = IF tokens > features THEN value(tokens - 1) ELSE y[row]
  <2>1. DOMAIN y = 0 .. samples - 1
    BY <1>3, Zenon
  <2>2. row \in 0 .. samples - 1
    BY <1>2
  <2>3. y' = [r \in 0 .. samples - 1 |->
                IF r = row THEN (IF tokens > features THEN value(tokens - 1) ELSE y[row])
                ELSE y[r]]
    BY <1>1, <2>1, Zenon
  <2>4. QED
    BY <2>1, <2>2, <2>3, Zenon
<1>6. ASSUME NEW n \in DOMAIN X, \A c \in 0 .. features - 1 : n # Cell(c)
      PROVE  X'[n] = X[n]
  BY <1>1, <1>6, Zenon
<1>7. ASSUME ~ HasEmptyField(Line)
      PROVE  /\ \A c \in 0 .. features - 1 :
                  X'[Cell(c)] = Number(Line, FieldStart(Line, c))
             /\ y'[row] = Number(Line, FieldStart(Line, features))
  <2>1. tokens = features + 1
    BY <1>2, <1>7 DEF HasEmptyField
  <2>2. \A c \in 0 .. features : value(c) = Number(Line, FieldStart(Line, c))
    BY <1>2, <1>7, TokenIsField
  <2>3. ASSUME NEW c \in 0 .. features - 1
        PROVE  X'[Cell(c)] = value(c)
    <3>1. c \in cells
      BY <1>2, <2>1
    <3>2. Cell(c) \in DOMAIN X
      <4>1. c \in Nat /\ c < features
        BY <1>2
      <4>2. QED
        BY <1>2, <1>3, <4>1, CellsApart DEF Cell
    <3>3. \A e \in cells : Cell(c) = Cell(e) => e = c
      <4>1. row * features \in Int
        BY <1>2
      <4>2. \A e \in 0 .. features - 1 : row * features + c = row * features + e => e = c
        BY <1>2, <4>1
      <4>3. QED
        BY <4>2, Zenon DEF Cell
    <3>4. (CHOOSE e \in cells : Cell(c) = Cell(e)) = c
      BY <3>1, <3>3, Zenon
    <3>5. QED
      BY <1>1, <3>1, <3>2, <3>4, Zenon
  <2>4. y'[row] = value(features)
    <3>1. tokens > features /\ tokens - 1 = features
      BY <1>2, <2>1
    <3>2. QED
      BY <1>5, <3>1, Zenon
  <2>5. \A c \in 0 .. features - 1 : c \in 0 .. features
    BY <1>2
  <2>6. features \in 0 .. features
    BY <1>2
  <2>7. QED
    BY <2>2, <2>3, <2>4, <2>5, <2>6, Zenon
<1>8. QED
  BY <1>4, <1>5, <1>6, <1>7, Zenon

\* The lines that were loaded stay as they are, and one more is.
LEMMA ParseStep ==
  ASSUME LoadInv, ParseLine, UNCHANGED genVars
  PROVE  LoadInv'
<1> USE DEF LoadInv
<1>1. /\ pc = "parse" /\ pc' = "parse" /\ GetLine /\ ~ Blank(Line) /\ row' = row + 1
      /\ UNCHANGED <<file, samples, features, gen_pc>>
  BY DEF ParseLine, genVars
<1>2. /\ samples \in Nat /\ features \in Nat \ {0} /\ row \in Nat /\ row < samples
      /\ Commas(Line) = features /\ row = SamplesIn(file, pos)
  BY <1>1, LineCounted DEF GetLine
<1>3. /\ pos' = pos + 1 /\ pos \in Nat /\ pos + 1 \in 1 .. Len(file) /\ Line = file[pos + 1]
      /\ SamplesIn(file, pos + 1) = SamplesIn(file, pos) + 1
      /\ \A p \in SampleLines(file) : p <= pos' <=> (p <= pos \/ p = pos + 1)
      /\ file \in Seq(Lines)
  BY <1>1, NextLine DEF FileInv
<1>4. FileInv'
  <2>1. pos + 1 \in 0 .. Len(file)
    BY <1>3
  <2>2. QED
    BY <1>1, <1>3, <2>1 DEF FileInv
<1>5. Sized'
  <2>1. HaveColumns(Len(file))' = HaveColumns(Len(file))
    BY <1>1 DEF HaveColumns
  <2>2. DOMAIN X' = DOMAIN X /\ y' = [r \in 0 .. samples - 1 |-> y'[r]]
    BY ParsedCells
  <2>3. row' = SamplesIn(file, pos')
    BY <1>1, <1>2, <1>3
  <2>4. QED
    BY <1>1, <2>1, <2>2, <2>3 DEF Sized
<1>6. ASSUME NEW p \in SampleLines(file), p <= pos, ~ HasEmptyField(file[p])
      PROVE  RowLoaded(p)'
  <2>1. PICK q \in Nat : q = SamplesIn(file, p - 1) /\ q < row
    <3>1. PICK S \in SUBSET (1 .. Len(file)), n \in Nat :
            /\ n = Len(file) /\ S = SampleLines(file)
            /\ \A m : SamplesIn(file, m) = UpTo(S, m)
      BY <1>3, SampleParts
    <3>2. p \in Nat /\ p - 1 \in Nat /\ p - 1 <= pos /\ p - 1 < p /\ p \in S
      BY <1>3, <1>6, <3>1
    <3>3. UpTo(S, p - 1) < UpTo(S, pos)
      BY <1>3, <1>6, <3>1, <3>2, CountGrows
    <3>4. UpTo(S, p - 1) \in Nat
      BY <3>1, <3>2, CountStep
    <3>5. QED
      BY <1>2, <3>1, <3>3, <3>4
  <2>2. /\ \A c \in 0 .. features - 1 :
             X[q * features + c] = Number(file[p], FieldStart(file[p], c))
        /\ y[q] = Number(file[p], FieldStart(file[p], features))
    BY <1>1, <1>6, <2>1, Zenon DEF Loaded, RowLoaded
  <2>3. ASSUME NEW c \in 0 .. features - 1
        PROVE  X'[q * features + c] = X[q * features + c]
    <3>1. c \in Nat /\ c < features /\ q < samples
      BY <1>2, <2>1
    <3>2. q * features + c \in DOMAIN X
      BY <1>1, <1>2, <3>1, CellsApart DEF Sized
    <3>3. ASSUME NEW d \in 0 .. features - 1
          PROVE  q * features + c # Cell(d)
      <4>1. d \in Nat
        BY <1>2
      <4>2. q * features + c < row * features + d
        BY <1>2, <2>1, <3>1, <4>1, CellsApart
      <4>3. q * features \in Nat /\ row * features \in Nat
        BY <1>2
      <4>4. QED
        BY <3>1, <4>1, <4>2, <4>3 DEF Cell
    <3>4. QED
      BY <3>2, <3>3, ParsedCells, Zenon
  <2>4. y'[q] = y[q]
    <3>1. q \in 0 .. samples - 1 /\ q # row
      BY <1>2, <2>1
    <3>2. QED
      BY <3>1, ParsedCells, Zenon
  <2>5. /\ \A c \in 0 .. features - 1 :
             X'[q * features + c] = Number(file[p], FieldStart(file[p], c))
        /\ y'[q] = Number(file[p], FieldStart(file[p], features))
    BY <2>2, <2>3, <2>4, Zenon
  <2>6. QED
    BY <1>1, <2>1, <2>5, Zenon DEF RowLoaded
<1>7. ASSUME NEW p, p = pos + 1, ~ HasEmptyField(file[p])
      PROVE  RowLoaded(p)'
  <2>1. p - 1 = pos /\ Line = file[p]
    BY <1>3, <1>7
  <2>2. /\ \A c \in 0 .. features - 1 :
             X'[row * features + c] = Number(Line, FieldStart(Line, c))
        /\ y'[row] = Number(Line, FieldStart(Line, features))
    BY <1>7, <2>1, ParsedCells, Zenon DEF Cell
  <2>3. QED
    BY <1>1, <1>2, <2>1, <2>2, Zenon DEF RowLoaded
<1>8. Loaded'
  <2>1. ASSUME NEW p \in SampleLines(file), p <= pos + 1, ~ HasEmptyField(file[p])
        PROVE  RowLoaded(p)'
    BY <1>3, <1>6, <1>7, <2>1
  <2>2. QED
    BY <1>1, <1>3, <2>1 DEF Loaded
<1>9. QED
  BY <1>1, <1>4, <1>5, <1>8 DEF Counted, Refused

\* A blank line adds nothing to the second pass.
LEMMA SkipInParse ==
  ASSUME LoadInv, pc = "parse", SkipBlank, UNCHANGED genVars
  PROVE  LoadInv'
<1> USE DEF LoadInv
<1>1. /\ pc' = "parse" /\ GetLine /\ Blank(Line)
      /\ UNCHANGED <<file, samples, features, X, y, row, gen_pc>>
  BY DEF SkipBlank, genVars
<1>2. /\ pos' = pos + 1 /\ pos + 1 \in 0 .. Len(file) /\ pos + 1 \notin SampleLines(file)
      /\ SamplesIn(file, pos') = SamplesIn(file, pos)
      /\ \A p \in SampleLines(file) : p <= pos' <=> p <= pos
  <2>1. /\ pos' = pos + 1 /\ pos + 1 \in 1 .. Len(file) /\ pos + 1 \notin SampleLines(file)
        /\ SamplesIn(file, pos') = SamplesIn(file, pos)
        /\ \A p \in SampleLines(file) : p <= pos' <=> (p <= pos \/ p = pos + 1)
    BY <1>1, NextLine
  <2>2. \A p \in SampleLines(file) : p <= pos' <=> p <= pos
    BY <2>1, Zenon
  <2>3. pos + 1 \in 0 .. Len(file)
    BY <2>1
  <2>4. QED
    BY <2>1, <2>2, <2>3
<1>3. FileInv'
  BY <1>1, <1>2 DEF FileInv
<1>4. HaveColumns(Len(file))' = HaveColumns(Len(file)) /\ \A p : RowLoaded(p)' = RowLoaded(p)
  BY <1>1 DEF HaveColumns, RowLoaded
<1>5. Sized'
  BY <1>1, <1>2, <1>4 DEF Sized
<1>6. Loaded'
  BY <1>1, <1>2, <1>4 DEF Loaded
<1>7. QED
  BY <1>1, <1>3, <1>5, <1>6 DEF Counted, Refused

LEMMA LoaderStep == GenInv /\ LoadInv /\ [Next]_vars => GenInv' /\ LoadInv'
<1> SUFFICES ASSUME GenInv, LoadInv, [Next]_vars
             PROVE  GenInv' /\ LoadInv'
  OBVIOUS
<1>1. ASSUME UNCHANGED genVars PROVE GenInv'
  <2>1. /\ UNCHANGED <<num_features, total_samples, num_shards, gen_pc, s, i, shards>>
    BY <1>1 DEF genVars, args
  <2>2. base' = base /\ rem' = rem /\ count' = count /\ Columns' = Columns
        /\ \A k : CountOf(k)' = CountOf(k)
    BY <2>1 DEF base, rem, count, Columns, CountOf
  <2>3. GenTypes' /\ Written'
    BY <2>1, <2>2 DEF GenInv, GenTypes, Written
  <2>4. QED
    BY <2>3 DEF GenInv
<1>2. ASSUME UNCHANGED loadVars, pc = "idle" \/ gen_pc' = gen_pc PROVE LoadInv'
  <2>1. UNCHANGED <<file, pc, pos, samples, features, X, y, row, fault>>
    BY <1>2 DEF loadVars
  <2>2. FileInv'
    BY <1>2, <2>1 DEF LoadInv, FileInv
  <2>3. /\ HaveColumns(pos)' = HaveColumns(pos) /\ HaveColumns(Len(file))' = HaveColumns(Len(file))
        /\ \A p : RowLoaded(p)' = RowLoaded(p)
    BY <2>1 DEF HaveColumns, RowLoaded
  <2>4. Counted' /\ Sized' /\ Refused' /\ Loaded'
    BY <2>1, <2>3 DEF LoadInv, Counted, Sized, Refused, Loaded
  <2>5. QED
    BY <2>2, <2>4 DEF LoadInv
<1>3. CASE GenNext /\ UNCHANGED loadVars
  <2>1. gen_pc \notin {"unused", "done"}
    BY <1>3 DEF GenNext, ArgsFail, CheckArgs, OpenShard, WriteRow, CloseShard, Exit
  <2>2. pc = "idle"
    BY <2>1 DEF LoadInv, FileInv
  <2>3. QED
    BY <1>2, <1>3, <2>2, GenStep
<1>4. CASE (CallOnShard \/ CallOnFile) /\ UNCHANGED genVars
  BY <1>1, <1>4, CallStep
<1>5. CASE LoadNext /\ UNCHANGED genVars
  <2>1. CASE OpenFile \/ Return
    BY <1>1, <1>5, <2>1, OpenAndReturn
  <2>2. CASE SkipBlank \/ CountLine
    <3>1. pc = "count" \/ (pc = "parse" /\ SkipBlank)
      BY <2>2 DEF SkipBlank, CountLine
    <3>2. QED
      BY <1>1, <1>5, <2>2, <3>1, CountPassSteps, SkipInParse
  <2>3. CASE TooFewColumns \/ InconsistentColumns \/ NoSamples
    BY <1>1, <1>5, <2>3, RefusalSteps
  <2>4. CASE Allocate \/ AllocationFails
    BY <1>1, <1>5, <2>4, AllocateStep
  <2>5. CASE ParseLine
    BY <1>1, <1>5, <2>5, ParseStep
  <2>6. QED
    BY <1>1, <1>5, <2>1, <2>2, <2>3, <2>4, <2>5 DEF LoadNext
<1>6. CASE UNCHANGED vars
  BY <1>1, <1>2, <1>6 DEF vars, genVars
<1>7. QED
  BY <1>3, <1>4, <1>5, <1>6 DEF Next

\* What is counted and what is written are invariants of generator and loader.
THEOREM LoaderInvariance == Spec => [](GenInv /\ LoadInv)
  BY InitGenInv, InitLoadInv, LoaderStep, PTL DEF Spec

-----------------------------------------------------------------------------
(* What follows.                                                           *)

\* Whatever the file is: load_data returns 0 for exactly the tables, and no line of
\* the second pass goes beyond the arrays that the first one asked for.
THEOREM LoadsExactly == Spec => []LoadsExactlyTables
<1>1. GenInv /\ LoadInv => LoadsExactlyTables
  <2> SUFFICES ASSUME LoadInv
               PROVE  LoadsExactlyTables
    OBVIOUS
  <2>1. ASSUME pc \in {"parse", "ok"}
        PROVE  Accepts(file) /\ (pc = "ok" => row = samples)
    <3>1. /\ samples \in Nat \ {0} /\ features \in Nat \ {0} /\ file \in Seq(Lines)
          /\ samples = SamplesIn(file, Len(file)) /\ HaveColumns(Len(file))
          /\ row = SamplesIn(file, pos)
          /\ pc = "ok" => pos = Len(file)
      BY <2>1 DEF LoadInv, Sized, FileInv
    <3>2. Len(file) \in Nat /\ \A p \in SampleLines(file) : p <= Len(file)
      BY <3>1, SampleParts
    <3>3. SampleLines(file) # {}
      BY <3>1, <3>2, SampleSeen
    <3>4. \A p \in SampleLines(file) : Commas(file[p]) = features
      BY <3>1, <3>2, Zenon DEF HaveColumns
    <3>5. features >= 1
      BY <3>1
    <3>6. Accepts(file)
      BY <3>3, <3>4, <3>5, Zenon DEF Accepts
    <3>7. QED
      BY <3>1, <3>6
  <2>2. ASSUME pc = "parse", pos < Len(file), ~ Blank(Line)
        PROVE  /\ row < samples
               /\ Cardinality(Tokens(Line)) <= features + 1
               /\ \A c \in 0 .. features - 1 : Cell(c) \in DOMAIN X
    <3>1. /\ samples \in Nat /\ features \in Nat \ {0} /\ row \in Nat /\ row < samples
          /\ Line \in Lines /\ Commas(Line) = features
      BY <2>2, LineCounted
    <3>2. Cardinality(Tokens(Line)) <= features + 1
      BY <3>1, TokenCount
    <3>3. ASSUME NEW c \in 0 .. features - 1
          PROVE  Cell(c) \in DOMAIN X
      <4>1. c \in Nat /\ c < features
        BY <3>1
      <4>2. DOMAIN X = 0 .. samples * features - 1
        BY <2>2 DEF LoadInv, Sized
      <4>3. QED
        BY <3>1, <4>1, <4>2, CellsApart DEF Cell
    <3>4. QED
      BY <3>1, <3>2, <3>3
  <2>3. pc = "failed" => fault \/ ~ Accepts(file)
    BY DEF LoadInv, Refused
  <2>4. QED
    BY <2>1, <2>2, <2>3 DEF LoadsExactlyTables
<1>2. QED
  BY <1>1, LoaderInvariance, PTL

\* Whatever the file is: a row without an empty field is in the arrays as written.
THEOREM LoadsAsWritten == Spec => []RowsLoadedAsWritten
<1>1. GenInv /\ LoadInv => RowsLoadedAsWritten
  <2> SUFFICES ASSUME LoadInv, pc = "ok"
               PROVE  RowsLoadedAsWritten
    BY DEF RowsLoadedAsWritten
  <2>1. /\ file \in Seq(Lines) /\ pos = Len(file)
        /\ \A p \in SampleLines(file) : p <= pos /\ ~ HasEmptyField(file[p]) => RowLoaded(p)
    BY DEF LoadInv, FileInv, Sized, Loaded
  <2>2. \A p \in SampleLines(file) : p <= pos
    BY <2>1, SampleParts
  <2>3. QED
    BY <2>1, <2>2, Zenon DEF RowsLoadedAsWritten, RowLoaded
<1>2. QED
  BY <1>1, LoaderInvariance, PTL

-----------------------------------------------------------------------------
(* A shard is a table.                                                     *)

\* A row of the generator has the columns that it was written with: a comma is at
\* every even position but the last, and no field is empty.
LEMMA RowColumns ==
  ASSUME NEW n \in Nat, n > 1
  PROVE  ~ Blank(Row(n)) /\ Commas(Row(n)) = n - 1 /\ ~ HasEmptyField(Row(n))
<1>1. PICK line, C, T : line = Row(n) /\ C = CommasOf(line) /\ T = Tokens(line)
  OBVIOUS
<1>2. /\ line \in Lines /\ DOMAIN line = 1 .. 2 * n
      /\ \A p \in 1 .. 2 * n :
           line[p] = IF p = 2 * n THEN "\n" ELSE IF p % 2 = 0 THEN "," ELSE "v"
  BY <1>1, RowIsLine DEF Row
<1>3. C \in SUBSET (1 .. 2 * n) /\ IsFiniteSet(C) /\ Commas(line) = Cardinality(C)
  BY <1>1, <1>2, LineParts
<1>4. line[1] = "v" /\ 1 \in DOMAIN line
  <2>1. 1 \in 1 .. 2 * n /\ 1 # 2 * n /\ 1 % 2 # 0
    OBVIOUS
  <2>2. line[1] = IF 1 = 2 * n THEN "\n" ELSE IF 1 % 2 = 0 THEN "," ELSE "v"
    BY <1>2, <2>1, Zenon
  <2>3. QED
    BY <1>2, <2>1, <2>2, Zenon
<1>5. ~ Blank(line)
  BY <1>4 DEF Blank
<1>6. \A p : p \in C <=> p \in 1 .. 2 * n - 1 /\ p % 2 = 0
  <2>1. ASSUME NEW p \in 1 .. 2 * n
        PROVE  line[p] = "," <=> p \in 1 .. 2 * n - 1 /\ p % 2 = 0
    <3>1. line[p] = IF p = 2 * n THEN "\n" ELSE IF p % 2 = 0 THEN "," ELSE "v"
      BY <1>2
    <3>2. line[p] = "," <=> p # 2 * n /\ p % 2 = 0
      BY <3>1
    <3>3. p # 2 * n <=> p \in 1 .. 2 * n - 1
      OBVIOUS
    <3>4. QED
      BY <3>2, <3>3
  <2>2. \A p : p \in C <=> p \in 1 .. 2 * n /\ line[p] = ","
    BY <1>1, <1>2, Zenon DEF CommasOf
  <2>3. \A p \in 1 .. 2 * n - 1 : p \in 1 .. 2 * n
    OBVIOUS
  <2>4. QED
    BY <2>1, <2>2, <2>3, Zenon
<1>7. Cardinality(C) = n - 1
  <2>1. PICK f : f = [j \in 1 .. n - 1 |-> 2 * j]
    OBVIOUS
  <2>2. f \in Bijection(1 .. n - 1, C)
    <3>1. \A j \in 1 .. n - 1 : f[j] = 2 * j /\ 2 * j \in 1 .. 2 * n - 1 /\ (2 * j) % 2 = 0
      BY <2>1
    <3>2. f \in [1 .. n - 1 -> C]
      BY <1>6, <2>1, <3>1
    <3>3. \A p \in C : \E j \in 1 .. n - 1 : f[j] = p
      <4> SUFFICES ASSUME NEW p \in C
                   PROVE  \E j \in 1 .. n - 1 : f[j] = p
        OBVIOUS
      <4>1. p \in 1 .. 2 * n - 1 /\ p % 2 = 0
        BY <1>6
      <4>2. PICK j \in Nat : j = p \div 2
        BY <4>1
      <4>3. p = 2 * j /\ j \in 1 .. n - 1
        BY <4>1, <4>2
      <4>4. f[j] = p
        BY <2>1, <4>3
      <4>5. QED
        BY <4>3, <4>4
    <3>4. \A j, k \in 1 .. n - 1 : f[j] = f[k] => j = k
      BY <3>1
    <3>5. f \in Injection(1 .. n - 1, C)
      BY <3>2, <3>4 DEF Injection, IsInjective
    <3>6. QED
      BY <3>2, <3>3, <3>5 DEF Bijection, Surjection
  <2>3. IsFiniteSet(1 .. n - 1) /\ Cardinality(1 .. n - 1) = n - 1
    BY FS_Interval
  <2>4. ExistsBijection(1 .. n - 1, C)
    BY <2>2, Zenon DEF ExistsBijection
  <2>5. QED
    BY <2>3, <2>4, FS_Bijection
<1>8. T = {1} \cup Behind(C)
  <2>1. \A p : p \in T <=> p \in 1 .. 2 * n /\ line[p] # "," /\ (p > 1 => line[p - 1] = ",")
    BY <1>1, <1>2 DEF Tokens
  <2>2. ASSUME NEW p \in 1 .. 2 * n
        PROVE  p \in T <=> (p = 1 \/ p - 1 \in C)
    <3>1. p > 1 => (line[p - 1] = "," <=> p - 1 \in C)
      <4>1. p > 1 => p - 1 \in 1 .. 2 * n
        OBVIOUS
      <4>2. QED
        BY <1>1, <1>2, <4>1 DEF CommasOf
    <3>2. p - 1 \in C => line[p] # ","
      <4>1. p - 1 \in C => p % 2 # 0
        BY <1>6
      <4>2. QED
        BY <1>2, <4>1
    <3>3. p - 1 \in C => p > 1
      BY <1>6
    <3>4. p = 1 \/ p > 1
      OBVIOUS
    <3>5. 1 > 1 <=> FALSE
      OBVIOUS
    <3>6. p = 1 => line[p] # ","
      BY <1>4
    <3>7. QED
      BY <2>1, <3>1, <3>2, <3>3, <3>4, <3>5, <3>6, Zenon
  <2>3. \A p : p \in Behind(C) <=> p \in 1 .. 2 * n /\ p - 1 \in C
    BY <1>6 DEF Behind
  <2>4. \A p \in T : p \in 1 .. 2 * n
    BY <2>1
  <2>5. 1 \in 1 .. 2 * n
    OBVIOUS
  <2>6. \A p : p \in T <=> (p = 1 \/ p \in Behind(C))
    BY <2>2, <2>3, <2>4, <2>5, Zenon
  <2>7. QED
    BY <2>6, Zenon
<1>9. Cardinality(T) = n
  <2>1. IsFiniteSet(Behind(C)) /\ Cardinality(Behind(C)) = n - 1
    <3>1. C \subseteq Nat
      BY <1>3
    <3>2. QED
      BY <1>3, <1>7, <3>1, ShiftCount, Zenon
  <2>2. 1 \notin Behind(C)
    BY <1>6 DEF Behind
  <2>3. QED
    BY <1>8, <2>1, <2>2, FS_AddElement
<1>10. QED
  BY <1>1, <1>3, <1>5, <1>7, <1>9 DEF HasEmptyField

\* The quotient and the remainder.
LEMMA Division ==
  ASSUME NEW n \in Nat, NEW f \in Nat \ {0}
  PROVE  \E r \in Nat, c \in Nat : r = n \div f /\ c = n % f /\ n = r * f + c /\ c < f
<1>1. PICK r, c \in Int : r = n \div f /\ c = n % f
  OBVIOUS
<1>2. n = r * f + c
  BY <1>1
<1>3. r \in Nat /\ c \in Nat /\ c < f
  BY <1>1
<1>4. QED
  BY <1>1, <1>2, <1>3, Zenon

\* Every line of a shard is a sample.
LEMMA ShardSamples ==
  ASSUME GenInv, gen_pc = "done", NEW k \in DOMAIN shards
  PROVE  LET f == FileOf(k) IN
         /\ f \in Seq(Lines) /\ Len(f) = Len(shards[k]) /\ Len(f) \in Nat
         /\ SampleLines(f) = 1 .. Len(f)
         /\ \A n \in 0 .. Len(f) : SamplesIn(f, n) = n
         /\ \A p \in 1 .. Len(f) : Commas(f[p]) = num_features /\ ~ HasEmptyField(f[p])
<1>1. PICK f : f = FileOf(k)
  OBVIOUS
<1>2. /\ Columns \in Nat /\ Columns > 1
      /\ f \in Seq(Lines) /\ Len(f) = Len(shards[k])
      /\ \A r \in 1 .. Len(f) : f[r] = Row(Columns)
  BY <1>1, ShardIsFile
<1>3. num_features \in Nat /\ Columns - 1 = num_features
  BY DEF GenInv, GenTypes, Columns
<1>4. Len(f) \in Nat /\ DOMAIN f = 1 .. Len(f)
  BY <1>2, LenProperties
<1>5. \A p \in 1 .. Len(f) :
        ~ Blank(f[p]) /\ Commas(f[p]) = num_features /\ ~ HasEmptyField(f[p])
  BY <1>2, <1>3, RowColumns
<1>6. SampleLines(f) = 1 .. Len(f)
  BY <1>4, <1>5 DEF SampleLines
<1>7. ASSUME NEW n \in 0 .. Len(f) PROVE SamplesIn(f, n) = n
  <2>1. {p \in SampleLines(f) : p <= n} = 1 .. n
    BY <1>4, <1>6
  <2>2. Cardinality(1 .. n) = n
    BY <1>4, FS_Interval
  <2>3. QED
    BY <2>1, <2>2 DEF SamplesIn
<1>8. QED
  BY <1>1, <1>2, <1>4, <1>5, <1>6, <1>7

\* strtof gives a number, whatever is there.
LEMMA NumberIsNat ==
  ASSUME NEW line \in Lines, NEW p \in Nat
  PROVE  Number(line, p) \in Nat
<1>1. PICK T : T = {q \in p .. Len(line) : line[q] = "v" /\ \A r \in p .. q : line[r] # ","}
  OBVIOUS
<1>2. T \subseteq Nat
  <2>1. Len(line) \in Nat
    BY LineParts
  <2>2. p .. Len(line) \subseteq Nat
    BY <2>1
  <2>3. QED
    BY <1>1, <2>2, Zenon
<1>3. T # {} => Min(T) \in Nat
  <2> SUFFICES ASSUME T # {}
               PROVE  Min(T) \in Nat
    OBVIOUS
  <2>1. \E n \in T : \A m \in T : n <= m
    BY <1>2, LeastNumber
  <2>2. (CHOOSE n \in T : \A m \in T : n <= m) \in T
    BY <2>1, Zenon
  <2>3. Min(T) \in T
    BY <2>2, Zenon DEF Min
  <2>4. QED
    BY <1>2, <2>3
<1>4. Number(line, p) = IF T = {} THEN 0 ELSE Min(T)
  BY <1>1, Zenon DEF Number
<1>5. QED
  BY <1>3, <1>4

\* load_data has been called on one of the shards.
OnShard == gen_pc = "done" /\ pc # "idle" => \E k \in DOMAIN shards : file = FileOf(k)

LEMMA OnShardInvariance == Spec => []OnShard
<1>1. Init => OnShard
  BY DEF Init, LoadInit, OnShard
<1>2. (GenInv /\ LoadInv) /\ OnShard /\ [Next]_vars => OnShard'
  <2> SUFFICES ASSUME LoadInv, OnShard, [Next]_vars
               PROVE  OnShard'
    OBVIOUS
  <2>1. ASSUME UNCHANGED <<gen_pc, shards>>, UNCHANGED file, pc # "idle" \/ pc' = "idle"
        PROVE  OnShard'
    BY <2>1 DEF OnShard, FileOf
  <2>2. CASE GenNext /\ UNCHANGED loadVars
    <3>1. gen_pc \notin {"unused", "done"}
      BY <2>2 DEF GenNext, ArgsFail, CheckArgs, OpenShard, WriteRow, CloseShard, Exit
    <3>2. pc' = "idle"
      BY <2>2, <3>1 DEF LoadInv, FileInv, loadVars
    <3>3. QED
      BY <3>2 DEF OnShard
  <2>3. CASE CallOnShard /\ UNCHANGED genVars
    <3>1. UNCHANGED shards /\ \E k \in DOMAIN shards : file' = FileOf(k)
      BY <2>3 DEF CallOnShard, Call, genVars
    <3>2. \E k \in DOMAIN shards' : file' = FileOf(k)'
      BY <3>1 DEF FileOf
    <3>3. QED
      BY <3>2 DEF OnShard
  <2>4. CASE CallOnFile /\ UNCHANGED genVars
    BY <2>4 DEF CallOnFile, OnShard, genVars
  <2>5. CASE LoadNext /\ UNCHANGED genVars
    <3>1. UNCHANGED <<gen_pc, shards>> /\ UNCHANGED file /\ pc # "idle"
      BY <2>5 DEF LoadNext, OpenFile, SkipBlank, CountLine, TooFewColumns,
                  InconsistentColumns, NoSamples, Allocate, AllocationFails, ParseLine, Return, genVars
    <3>2. QED
      BY <2>1, <3>1
  <2>6. CASE UNCHANGED vars
    BY <2>1, <2>6 DEF vars, genVars, loadVars
  <2>7. QED
    BY <2>2, <2>3, <2>4, <2>5, <2>6 DEF Next
<1>3. QED
  BY <1>1, <1>2, LoaderInvariance, PTL DEF Spec

\* A row of a shard that is loaded has no hole.
LEMMA NoHoles ==
  ASSUME GenInv, LoadInv, gen_pc = "done", pc = "ok",
         NEW k \in DOMAIN shards, file = FileOf(k)
  PROVE  /\ \A n \in DOMAIN X : X[n] # Uninitialised
         /\ \A r \in DOMAIN y : y[r] # Uninitialised
<1>1. /\ file \in Seq(Lines) /\ Len(file) \in Nat
      /\ SampleLines(file) = 1 .. Len(file)
      /\ \A n \in 0 .. Len(file) : SamplesIn(file, n) = n
      /\ \A p \in 1 .. Len(file) : ~ HasEmptyField(file[p])
      /\ \A p \in 1 .. Len(file) : file[p] \in Lines
  BY ShardSamples
<1>2. /\ features \in Nat \ {0} /\ samples = SamplesIn(file, Len(file))
      /\ HaveColumns(Len(file)) /\ pos = Len(file)
      /\ DOMAIN X = 0 .. samples * features - 1 /\ y = [r \in 0 .. samples - 1 |-> y[r]]
      /\ \A p \in SampleLines(file) : p <= pos /\ ~ HasEmptyField(file[p]) => RowLoaded(p)
  BY DEF LoadInv, Sized, Loaded
<1>3. samples = Len(file)
  BY <1>1, <1>2
<1>4. \A p \in 1 .. Len(file) : p \in SampleLines(file) /\ p <= pos /\ p <= Len(file)
  BY <1>1, <1>2
<1>5. ASSUME NEW r \in 0 .. samples - 1, NEW c \in 0 .. features
      PROVE  /\ c < features => X[r * features + c] # Uninitialised
             /\ y[r] # Uninitialised
  <2>1. PICK p \in Nat : p = r + 1
    BY <1>1, <1>3
  <2>2. p \in 1 .. Len(file) /\ p - 1 \in 0 .. Len(file) /\ p - 1 = r
    BY <1>1, <1>3, <2>1
  <2>3. RowLoaded(p) /\ SamplesIn(file, p - 1) = r /\ Commas(file[p]) = features
    BY <1>1, <1>2, <1>4, <2>2 DEF HaveColumns
  <2>4. ASSUME NEW d \in 0 .. features
        PROVE  Number(file[p], FieldStart(file[p], d)) # Uninitialised
    <3>1. FieldStart(file[p], d) \in Nat
      BY <1>1, <2>2, <2>3, TokenIsField
    <3>2. Number(file[p], FieldStart(file[p], d)) \in Nat
      BY <1>1, <2>2, <3>1, NumberIsNat
    <3>3. QED
      BY <3>2, UninitialisedAssumption
  <2>5. features \in 0 .. features /\ (c < features => c \in 0 .. features - 1)
    BY <1>2
  <2>6. /\ \A d \in 0 .. features - 1 :
             X[r * features + d] = Number(file[p], FieldStart(file[p], d))
        /\ y[r] = Number(file[p], FieldStart(file[p], features))
    BY <2>3, Zenon DEF RowLoaded
  <2>7. y[r] # Uninitialised
    BY <2>4, <2>5, <2>6, Zenon
  <2>8. c < features => X[r * features + c] # Uninitialised
    BY <2>4, <2>5, <2>6, Zenon
  <2>9. QED
    BY <2>7, <2>8
<1>6. ASSUME NEW n \in DOMAIN X PROVE X[n] # Uninitialised
  <2>1. n \in Nat /\ n < samples * features
    BY <1>1, <1>2, <1>3
  <2>2. PICK f \in Nat \ {0} : f = features
    BY <1>2
  <2>3. PICK r \in Nat, c \in Nat : n = r * f + c /\ c < f
    BY <2>1, Division, Zenon
  <2>4. r < samples
    <3>1. PICK m \in Nat : m = samples
      BY <1>1, <1>3
    <3>2. m <= r => m * f <= r * f
      BY <2>3
    <3>3. QED
      BY <2>1, <2>2, <2>3, <3>1, <3>2
  <2>5. r \in 0 .. samples - 1 /\ c \in 0 .. features /\ n = r * features + c
    BY <1>1, <1>2, <1>3, <2>2, <2>3, <2>4
  <2>6. QED
    BY <1>5, <2>2, <2>3, <2>5
<1>7. ASSUME NEW r \in DOMAIN y PROVE y[r] # Uninitialised
  <2>1. r \in 0 .. samples - 1 /\ 0 \in 0 .. features
    BY <1>2
  <2>2. QED
    BY <1>5, <2>1
<1>8. QED
  BY <1>6, <1>7

\* Whatever the number of samples, of features and of shards: the generator's files
\* are what the loader takes, and an empty one has more shards than samples behind it.
THEOREM ShardsAreLoaded == Spec => []ShardsLoad
<1>1. (GenInv /\ LoadInv) /\ OnShard => ShardsLoad
  <2> SUFFICES ASSUME GenInv, LoadInv, OnShard, gen_pc = "done", pc \in {"failed", "ok"}
               PROVE  ShardsLoad
    BY DEF ShardsLoad
  <2>1. PICK k \in DOMAIN shards : file = FileOf(k)
    BY DEF OnShard
  <2>2. /\ file \in Seq(Lines) /\ Len(file) = Len(shards[k]) /\ Len(file) \in Nat
        /\ SampleLines(file) = 1 .. Len(file)
        /\ \A n \in 0 .. Len(file) : SamplesIn(file, n) = n
        /\ \A p \in 1 .. Len(file) : Commas(file[p]) = num_features
    BY <2>1, ShardSamples
  <2>3. num_features \in Nat \ {0} /\ total_samples \in Nat /\ num_shards \in Nat \ {0}
    BY DEF GenInv, GenTypes, Written
  <2>4. CASE pc = "failed" /\ ~ fault
    <3>1. ~ Accepts(file)
      BY <2>4 DEF LoadInv, Refused
    <3>2. Len(file) = 0
      <4> SUFFICES ASSUME Len(file) # 0
                   PROVE  Accepts(file)
        BY <3>1
      <4>1. 1 \in SampleLines(file)
        BY <2>2
      <4>2. QED
        BY <2>2, <2>3, <4>1 DEF Accepts
    <3>3. file = <<>>
      BY <2>2, <3>2, EmptySeq
    <3>4. k \in 1 .. s /\ s = num_shards /\ CountOf(k) = 0
      <4>1. /\ shards \in Seq(Seq(Nat)) /\ Len(shards) = s /\ s = num_shards
            /\ \A n \in 1 .. s : Len(shards[n]) = CountOf(n)
        BY DEF GenInv, GenTypes, Written
      <4>2. DOMAIN shards = 1 .. s
        BY <4>1, LenProperties
      <4>3. QED
        BY <2>2, <3>2, <4>1, <4>2
    <3>5. PICK b \in Nat, m \in Nat :
             /\ b = total_samples \div num_shards /\ m = total_samples % num_shards
             /\ total_samples = b * num_shards + m /\ m < num_shards
      BY <2>3, Division, Zenon
    <3>7. b = 0
      BY <3>4, <3>5 DEF CountOf, base
    <3>8. total_samples < num_shards
      BY <2>3, <3>5, <3>7
    <3>9. QED
      BY <2>4, <3>3, <3>8 DEF ShardsLoad
  <2>5. CASE pc = "ok"
    <3>1. /\ samples = SamplesIn(file, Len(file)) /\ samples \in Nat \ {0}
          /\ HaveColumns(Len(file))
      BY <2>5 DEF LoadInv, Sized
    <3>2. samples = Len(shards[k])
      BY <2>2, <3>1
    <3>3. features = num_features
      <4>1. 1 \in SampleLines(file) /\ 1 \in 1 .. Len(file) /\ 1 <= Len(file)
        BY <2>2, <3>1
      <4>2. QED
        BY <2>2, <3>1, <4>1 DEF HaveColumns
    <3>4. /\ \A n \in DOMAIN X : X[n] # Uninitialised
          /\ \A r \in DOMAIN y : y[r] # Uninitialised
      BY <2>1, <2>5, NoHoles
    <3>5. QED
      BY <2>5, <3>2, <3>3, <3>4 DEF ShardsLoad
  <2>6. QED
    BY <2>4, <2>5 DEF ShardsLoad
<1>2. QED
  BY <1>1, LoaderInvariance, OnShardInvariance, PTL

-----------------------------------------------------------------------------
(* The split.                                                              *)

\* What the shards in T hold together, without adding them up.
InShards(T) == base * Cardinality(T) + Cardinality(T \cap (1 .. rem))

\* One shard more holds its share more.
LEMMA OneShardMore ==
  ASSUME GenInv, num_shards > 0, NEW T \in SUBSET (1 .. num_shards), NEW x \in T
  PROVE  /\ InShards(T) = CountOf(x) + InShards(T \ {x})
         /\ InShards(T) \in Nat /\ InShards({}) = 0
         /\ Cardinality(T) \in Nat /\ Cardinality(T \ {x}) < Cardinality(T)
<1>1. PICK b \in Nat, m \in Nat : b = base /\ m = rem
  BY Division DEF GenInv, GenTypes, base, rem
<1>2. x \in Nat \ {0} /\ x \in 1 .. num_shards
  BY DEF GenInv, GenTypes
<1>3. IsFiniteSet(T) /\ IsFiniteSet(T \cap (1 .. m))
  <2>1. IsFiniteSet(1 .. num_shards)
    BY FS_Interval DEF GenInv, GenTypes
  <2>2. QED
    BY <2>1, FS_Subset
<1>4. PICK c \in Nat, d \in Nat : c = Cardinality(T) /\ d = Cardinality(T \cap (1 .. m))
  BY <1>3, FS_CardinalityType
<1>5. Cardinality(T \ {x}) = c - 1 /\ c > 0
  <2>1. Cardinality(T \ {x}) = c - 1 /\ IsFiniteSet(T \ {x})
    BY <1>3, <1>4, FS_RemoveElement
  <2>2. c # 0
    BY <1>3, <1>4, FS_EmptySet
  <2>3. QED
    BY <2>1, <2>2
<1>6. Cardinality((T \ {x}) \cap (1 .. m)) = IF x <= m THEN d - 1 ELSE d
  <2>1. CASE x <= m
    <3>1. x \in T \cap (1 .. m) /\ (T \ {x}) \cap (1 .. m) = (T \cap (1 .. m)) \ {x}
      BY <1>2, <2>1
    <3>2. PICK E : E = T \cap (1 .. m)
      OBVIOUS
    <3>3. Cardinality(E \ {x}) = Cardinality(E) - 1
      BY <1>3, <3>1, <3>2, FS_RemoveElement
    <3>4. QED
      BY <1>4, <2>1, <3>1, <3>2, <3>3
  <2>2. CASE ~ (x <= m)
    <3>1. (T \ {x}) \cap (1 .. m) = T \cap (1 .. m)
      BY <1>2, <2>2
    <3>2. QED
      BY <1>4, <2>2, <3>1
  <2>3. QED
    BY <2>1, <2>2
<1>7. CountOf(x) = IF x <= m THEN b + 1 ELSE b
  BY <1>1, <1>2 DEF CountOf
<1>8. InShards(T) = b * c + d
  BY <1>1, <1>4 DEF InShards
<1>9. InShards(T \ {x}) = b * (c - 1) + (IF x <= m THEN d - 1 ELSE d)
  BY <1>1, <1>5, <1>6 DEF InShards
<1>10. b * c = b * (c - 1) + b
  OBVIOUS
<1>11. InShards({}) = 0
  <2>1. {} \cap (1 .. rem) = {} /\ Cardinality({}) = 0
    BY FS_EmptySet
  <2>2. QED
    BY <1>1, <2>1 DEF InShards
<1>12. QED
  BY <1>4, <1>5, <1>7, <1>8, <1>9, <1>10, <1>11

\* Adding them up gives the same, in whatever order: a least set of shards for which
\* it did not would have one without one of its shards for which it did not either.
LEMMA ShardSum ==
  ASSUME GenInv, gen_pc = "done"
  PROVE  MapThenSumSet(LAMBDA k : Len(shards[k]), DOMAIN shards) = InShards(1 .. num_shards)
<1> DEFINE D == 1 .. num_shards
           Picked(T) == CHOOSE x \in T : TRUE
           Sums(g) == g = [T \in SUBSET D |->
                             IF T = {} THEN 0 ELSE Len(shards[Picked(T)]) + g[T \ {Picked(T)}]]
<1>1. /\ DOMAIN shards = D /\ num_shards \in Nat /\ num_shards > 0
      /\ \A k \in D : Len(shards[k]) = CountOf(k)
  <2>1. /\ shards \in Seq(Seq(Nat)) /\ Len(shards) = s /\ s = num_shards
        /\ num_shards \in Nat /\ num_shards > 0
        /\ \A k \in 1 .. s : Len(shards[k]) = CountOf(k)
    BY DEF GenInv, GenTypes, Written
  <2>2. QED
    BY <2>1, LenProperties
<1>2. \A T \in SUBSET D : T # {} =>
        /\ Picked(T) \in T /\ T \ {Picked(T)} \in SUBSET D
        /\ InShards(T) = Len(shards[Picked(T)]) + InShards(T \ {Picked(T)})
        /\ Cardinality(T) \in Nat /\ Cardinality(T \ {Picked(T)}) < Cardinality(T)
  BY <1>1, OneShardMore
<1>3. InShards({}) = 0
  BY <1>1, OneShardMore, 1 \in 1 .. num_shards
<1>4. Sums([T \in SUBSET D |-> InShards(T)])
  BY <1>2, <1>3
<1>5. ASSUME NEW g, Sums(g)
      PROVE  g[D] = InShards(D)
  <2>1. /\ g[{}] = 0
        /\ \A T \in SUBSET D : T # {} => g[T] = Len(shards[Picked(T)]) + g[T \ {Picked(T)}]
    BY <1>5
  <2>2. SUFFICES ASSUME NEW U \in SUBSET D, g[U] # InShards(U)
                 PROVE  FALSE
    OBVIOUS
  <2> DEFINE Wrong == {T \in SUBSET D : g[T] # InShards(T)}
             Sizes == {Cardinality(T) : T \in Wrong}
  <2>3. \A T \in Wrong : T # {}
    BY <1>3, <2>1
  <2>4. Sizes \subseteq Nat /\ Sizes # {}
    <3>1. U \in Wrong
      BY <2>2
    <3>2. \A T \in Wrong : Cardinality(T) \in Nat
      BY <1>2, <2>3, Zenon
    <3>3. QED
      BY <3>1, <3>2, Zenon
  <2>5. PICK n \in Sizes : \A k \in Sizes : n <= k
    BY <2>4, LeastNumber
  <2>6. PICK T \in Wrong : Cardinality(T) = n
    OBVIOUS
  <2>7. T \in SUBSET D /\ T # {} /\ g[T] # InShards(T)
    BY <2>3
  <2>8. PICK V : V = T \ {Picked(T)}
    OBVIOUS
  <2>9. V \in SUBSET D /\ g[V] # InShards(V)
    <3>1. /\ InShards(T) = Len(shards[Picked(T)]) + InShards(V)
          /\ g[T] = Len(shards[Picked(T)]) + g[V] /\ V \in SUBSET D
      BY <1>2, <2>1, <2>7, <2>8, Zenon
    <3>2. QED
      BY <2>7, <3>1, Zenon
  <2>10. Cardinality(V) \in Sizes
    BY <2>9
  <2>11. Cardinality(V) < n /\ n \in Nat /\ Cardinality(V) \in Nat
    BY <1>2, <2>4, <2>6, <2>7, <2>8, <2>10
  <2>12. QED
    BY <2>5, <2>10, <2>11
<1>6. PICK g : Sums(g) /\ MapThenSumSet(LAMBDA k : Len(shards[k]), D) = g[D]
  <2> DEFINE h == CHOOSE g : Sums(g)
  <2>1. Sums(h)
    BY <1>4
  <2>2. MapThenSumSet(LAMBDA k : Len(shards[k]), D) = h[D]
    BY DEF MapThenSumSet, MapThenFoldSet
  <2>3. QED
    BY <2>1, <2>2
<1>7. QED
  BY <1>1, <1>5, <1>6

\* Whatever the number of samples and shards, the shards hold every sample once and
\* none has more than one row more than another.
THEOREM SplitsExactly == Spec => []SplitExactly
<1>1. (GenInv /\ LoadInv) => SplitExactly
  <2> SUFFICES ASSUME GenInv, gen_pc = "done"
               PROVE  SplitExactly
    BY DEF SplitExactly
  <2>1. /\ shards \in Seq(Seq(Nat)) /\ Len(shards) = s /\ s = num_shards
        /\ num_shards \in Nat \ {0} /\ total_samples \in Nat
        /\ \A k \in 1 .. s : Len(shards[k]) = CountOf(k)
    BY DEF GenInv, GenTypes, Written
  <2>2. DOMAIN shards = 1 .. num_shards
    BY <2>1, LenProperties
  <2>3. PICK b \in Nat, m \in Nat :
             b = base /\ m = rem /\ total_samples = b * num_shards + m /\ m < num_shards
    BY <2>1, Division, Zenon DEF base, rem
  <2>4. InShards(1 .. num_shards) = total_samples
    <3>1. (1 .. num_shards) \cap (1 .. m) = 1 .. m
      BY <2>1, <2>3
    <3>2. Cardinality(1 .. num_shards) = num_shards /\ Cardinality(1 .. m) = m
      BY <2>1, FS_Interval
    <3>3. QED
      BY <2>3, <3>1, <3>2 DEF InShards
  <2>5. \A j, k \in 1 .. num_shards : Len(shards[j]) <= Len(shards[k]) + 1
    BY <2>1, <2>3 DEF CountOf
  <2>6. QED
    BY <2>1, <2>2, <2>4, <2>5, ShardSum DEF SplitExactly
<1>2. QED
  BY <1>1, LoaderInvariance, PTL

-----------------------------------------------------------------------------
(* What is held.                                                           *)

\* What can be held at each point of load_data.
HeldInv ==
  /\ pc \in {"idle", "open", "count", "parse", "failed", "ok"}
  /\ pc \in {"idle", "open", "failed"} => held = {}
  /\ pc = "count" => held \subseteq {"file", "line"}
  /\ pc = "parse" => {"X", "y"} \subseteq held /\ held \subseteq {"file", "line", "X", "y"}
  /\ pc = "ok" => held = {"X", "y"}

\* Each return releases all that was acquired on the way to it, whatever failed.
\* NothingLeaked needs to know what that is.
THEOREM NeverLeaks == Spec => []NothingLeaked
<1>1. Init => HeldInv
  BY DEF Init, LoadInit, HeldInv
<1>2. HeldInv /\ [Next]_vars => HeldInv'
  <2> SUFFICES ASSUME HeldInv, [Next]_vars
               PROVE  HeldInv'
    OBVIOUS
  <2> USE DEF HeldInv
  <2>1. CASE OpenFile
    BY <2>1 DEF OpenFile
  <2>2. CASE SkipBlank
    BY <2>2 DEF SkipBlank, GetLine
  <2>3. CASE CountLine
    BY <2>3 DEF CountLine, GetLine
  <2>4. CASE TooFewColumns \/ InconsistentColumns
    BY <2>4 DEF TooFewColumns, InconsistentColumns, Fail
  <2>5. CASE NoSamples
    BY <2>5 DEF NoSamples, Fail
  <2>6. CASE Allocate
    BY <2>6 DEF Allocate
  <2>7. CASE AllocationFails
    BY <2>7 DEF AllocationFails, Fail
  <2>8. CASE ParseLine
    BY <2>8 DEF ParseLine, GetLine
  <2>9. CASE Return
    BY <2>9 DEF Return
  <2>10. CASE CallOnShard \/ CallOnFile
    BY <2>10 DEF CallOnShard, CallOnFile, Call
  <2>11. CASE UNCHANGED loadVars
    BY <2>11 DEF loadVars
  <2> QED
    BY <2>1, <2>2, <2>3, <2>4, <2>5, <2>6, <2>7, <2>8, <2>9, <2>10, <2>11
    DEF Next, LoadNext, vars
<1>3. HeldInv => NothingLeaked
  BY DEF HeldInv, NothingLeaked
<1> QED
  BY <1>1, <1>2, <1>3, PTL DEF Spec
=============================================================================
