-------------------------- MODULE ArithmeticProofs --------------------------
(***************************************************************************)
(* A round is one step of gradient descent on the samples of its           *)
(* contributors, for every number of workers and features, all shards and  *)
(* all weights.  The sums are over sets, so the lemmas are by induction    *)
(* over a set, in the form of its smallest counterexample.                 *)
(***************************************************************************)
EXTENDS ModelArithmetic, FiniteSetTheorems, SequenceTheorems, WellFoundedInduction, TLAPS

-----------------------------------------------------------------------------
(* Sums over finite sets.                                                  *)

\* Every set of natural numbers but the empty one has a least element.
LEMMA LeastNumber ==
  ASSUME NEW T, T \subseteq Nat, T # {}
  PROVE  \E n \in T : \A m \in T : n <= m
<1>1. PICK R : R = OpToRel(<, Nat)
  OBVIOUS
<1>2. IsWellFoundedOn(R, Nat)
  BY <1>1, NatLessThanWellFounded
<1>3. PICK n \in T : \A m \in T : <<m, n>> \notin R
  BY <1>2, WFMin
<1>4. \A m \in T : ~ (m < n)
  BY <1>1, <1>3 DEF OpToRel
<1>5. QED
  BY <1>4

\* Among finite sets there is one that is in B while no set with an element less is.
LEMMA SmallestSet ==
  ASSUME NEW B, B # {}, \A T \in B : IsFiniteSet(T)
  PROVE  \E T \in B : \A x \in T : T \ {x} \notin B
<1> DEFINE Sizes == {Cardinality(T) : T \in B}
<1>1. \A T \in B : Cardinality(T) \in Nat
  BY FS_CardinalityType
<1>2. Sizes \subseteq Nat /\ Sizes # {}
  BY <1>1
<1>3. PICK n \in Sizes : \A m \in Sizes : n <= m
  BY <1>2, LeastNumber
<1>4. PICK T \in B : Cardinality(T) = n
  OBVIOUS
<1>5. ASSUME NEW x \in T, T \ {x} \in B PROVE FALSE
  <2>1. Cardinality(T \ {x}) = n - 1
    BY <1>4, FS_RemoveElement
  <2>2. n <= Cardinality(T \ {x})
    BY <1>3, <1>5
  <2>3. QED
    BY <1>1, <1>4, <2>1, <2>2
<1>6. QED
  BY <1>5

Picked(T) == CHOOSE x \in T : TRUE

\* g adds up f over the sets in D, taking the elements of each as CHOOSE does.
Adds(g, f, D) ==
  g = [T \in D |-> IF T = {} THEN 0 ELSE f[Picked(T)] + g[T \ {Picked(T)}]]

LEMMA SumIsAdded ==
  ASSUME NEW f, NEW S
  PROVE  SumFunctionOnSet(f, S) = (CHOOSE g : Adds(g, f, SUBSET S))[S]
BY DEF SumFunctionOnSet, FoldFunctionOnSet, MapThenFoldSet, Adds, Picked

\* There is such a function, from the sets of size 0 upwards.
LEMMA AddsExists ==
  ASSUME NEW f, NEW S, IsFiniteSet(S)
  PROVE  \E g : Adds(g, f, SUBSET S)
<1> DEFINE UpToSize(n) == {T \in SUBSET S : Cardinality(T) <= n}
           Without == {n \in Nat : ~ \E g : Adds(g, f, UpToSize(n))}
<1>1. \A T \in SUBSET S : /\ IsFiniteSet(T) /\ Cardinality(T) \in Nat
                          /\ T = {} <=> Cardinality(T) = 0
                          /\ Cardinality(T) <= Cardinality(S)
  BY FS_Subset, FS_CardinalityType, FS_EmptySet
<1>2. \A T \in SUBSET S : T # {} =>
        /\ Picked(T) \in T /\ T \ {Picked(T)} \in SUBSET S
        /\ Cardinality(T \ {Picked(T)}) = Cardinality(T) - 1
  BY <1>1, FS_RemoveElement DEF Picked
<1>3. ASSUME Without # {} PROVE FALSE
  <2>1. PICK n \in Without : \A m \in Without : n <= m
    BY <1>3, LeastNumber
  <2>2. n # 0
    <3> SUFFICES ASSUME n = 0
                 PROVE  \E g : Adds(g, f, UpToSize(0))
      OBVIOUS
    <3>1. \A T \in UpToSize(0) : T = {}
      BY <1>1
    <3>2. Adds([T \in UpToSize(0) |-> 0], f, UpToSize(0))
      BY <3>1 DEF Adds
    <3>3. QED
      BY <3>2
  <2>3. PICK m \in Nat : n = m + 1
    BY <2>2
  <2>4. m \notin Without
    <3>1. m \in Without => n <= m
      BY <2>1, Zenon
    <3>2. QED
      BY <2>3, <3>1
  <2>5. PICK g : Adds(g, f, UpToSize(m))
    BY <2>4
  <2>6. PICK h : h = [T \in UpToSize(n) |->
                        IF T = {} THEN 0 ELSE f[Picked(T)] + g[T \ {Picked(T)}]]
    OBVIOUS
  <2>7. \A T \in UpToSize(m) : T \in UpToSize(n) /\ h[T] = g[T]
    <3> SUFFICES ASSUME NEW T \in UpToSize(m)
                 PROVE  T \in UpToSize(n) /\ h[T] = g[T]
      OBVIOUS
    <3>1. T \in UpToSize(n)
      BY <1>1, <2>3
    <3>2. h[T] = IF T = {} THEN 0 ELSE f[Picked(T)] + g[T \ {Picked(T)}]
      BY <2>6, <3>1, Zenon
    <3>3. g[T] = IF T = {} THEN 0 ELSE f[Picked(T)] + g[T \ {Picked(T)}]
      BY <2>5, Zenon DEF Adds
    <3>4. h[T] = g[T]
      BY <3>2, <3>3
    <3>5. QED
      BY <3>1, <3>4, Zenon
  <2>8. \A T \in UpToSize(n) : T # {} => T \ {Picked(T)} \in UpToSize(m)
    BY <1>1, <1>2, <2>3
  <2>9. \A T \in UpToSize(n) : h[T] =
          IF T = {} THEN 0 ELSE f[Picked(T)] + h[T \ {Picked(T)}]
    BY <2>6, <2>7, <2>8, Zenon
  <2>10. Adds(h, f, UpToSize(n))
    BY <2>6, <2>9, Zenon DEF Adds
  <2>11. QED
    BY <2>10
<1>4. Cardinality(S) \in Nat /\ UpToSize(Cardinality(S)) = SUBSET S
  BY <1>1
<1>5. QED
  BY <1>3, <1>4

\* There is only one.
LEMMA AddsUnique ==
  ASSUME NEW f, NEW S, NEW T, NEW g, NEW h, IsFiniteSet(S), T \in SUBSET S,
         Adds(g, f, SUBSET S), Adds(h, f, SUBSET T)
  PROVE  g[T] = h[T]
<1> DEFINE Wrong == {V \in SUBSET T : g[V] # h[V]}
<1>1. SUFFICES ASSUME Wrong # {}
               PROVE  FALSE
  BY Zenon
<1>2. \A V \in Wrong : IsFiniteSet(V)
  BY FS_Subset
<1>3. PICK V \in Wrong : \A x \in V : V \ {x} \notin Wrong
  BY <1>1, <1>2, SmallestSet, Zenon
<1>4. /\ g[V] = IF V = {} THEN 0 ELSE f[Picked(V)] + g[V \ {Picked(V)}]
      /\ h[V] = IF V = {} THEN 0 ELSE f[Picked(V)] + h[V \ {Picked(V)}]
  BY DEF Adds
<1>5. V # {} => Picked(V) \in V /\ V \ {Picked(V)} \in SUBSET T
  BY DEF Picked
<1>6. QED
  BY <1>3, <1>4, <1>5, Zenon

\* The sum without one of the elements, whichever it is.
LEMMA SumStep ==
  ASSUME NEW f, NEW S, IsFiniteSet(S), \A x \in S : f[x] \in Int
  PROVE  /\ SumFunctionOnSet(f, S) \in Int /\ SumFunctionOnSet(f, {}) = 0
         /\ \A x \in S : SumFunctionOnSet(f, S) = f[x] + SumFunctionOnSet(f, S \ {x})
<1>1. PICK g : Adds(g, f, SUBSET S)
  BY AddsExists
<1>2. \A T \in SUBSET S : IsFiniteSet(T)
  BY FS_Subset
<1>3. \A T \in SUBSET S : SumFunctionOnSet(f, T) = g[T]
  <2> SUFFICES ASSUME NEW T \in SUBSET S
               PROVE  SumFunctionOnSet(f, T) = g[T]
    OBVIOUS
  <2>1. PICK h : h = CHOOSE k : Adds(k, f, SUBSET T)
    OBVIOUS
  <2>2. \E k : Adds(k, f, SUBSET T)
    BY <1>2, AddsExists
  <2>3. Adds(h, f, SUBSET T)
    BY <2>1, <2>2, Zenon
  <2>4. g[T] = h[T]
    BY <1>1, <2>3, AddsUnique
  <2>5. QED
    BY <2>1, <2>4, SumIsAdded, Zenon
<1>4. /\ g[{}] = 0
      /\ \A T \in SUBSET S : T # {} =>
           Picked(T) \in T /\ g[T] = f[Picked(T)] + g[T \ {Picked(T)}]
  BY <1>1 DEF Adds, Picked
<1>5. \A T \in SUBSET S : g[T] \in Int
  <2> DEFINE Wrong == {T \in SUBSET S : g[T] \notin Int}
  <2>1. SUFFICES ASSUME Wrong # {}
                 PROVE  FALSE
    OBVIOUS
  <2>2. PICK T \in Wrong : \A x \in T : T \ {x} \notin Wrong
    BY <1>2, <2>1, SmallestSet, Zenon
  <2>3. T # {} /\ T \in SUBSET S
    <3>1. T \in SUBSET S /\ g[T] \notin Int
      OBVIOUS
    <3>2. 0 \in Int
      OBVIOUS
    <3>3. QED
      BY <1>4, <3>1, <3>2, Zenon
  <2>4. Picked(T) \in T /\ g[T] = f[Picked(T)] + g[T \ {Picked(T)}]
    BY <1>4, <2>3
  <2>5. g[T \ {Picked(T)}] \in Int /\ f[Picked(T)] \in Int
    BY <2>2, <2>3, <2>4
  <2>6. QED
    BY <2>4, <2>5
<1>6. \A T \in SUBSET S : \A x \in T : g[T] = f[x] + g[T \ {x}]
  <2> DEFINE Wrong == {T \in SUBSET S : \E x \in T : g[T] # f[x] + g[T \ {x}]}
  <2>1. SUFFICES ASSUME Wrong # {}
                 PROVE  FALSE
    OBVIOUS
  <2>2. PICK T \in Wrong : \A x \in T : T \ {x} \notin Wrong
    BY <1>2, <2>1, SmallestSet, Zenon
  <2>3. PICK x \in T : g[T] # f[x] + g[T \ {x}]
    OBVIOUS
  <2>4. PICK p : p = Picked(T) /\ p \in T /\ g[T] = f[p] + g[T \ {p}]
    BY <1>4
  <2>5. p # x
    BY <2>3, <2>4
  <2>6. PICK V : V = (T \ {p}) \ {x} /\ V = (T \ {x}) \ {p} /\ V \in SUBSET S
    OBVIOUS
  <2>7. g[T \ {p}] = f[x] + g[V]
    BY <2>2, <2>4, <2>5, <2>6
  <2>8. g[T \ {x}] = f[p] + g[V]
    BY <2>2, <2>4, <2>5, <2>6
  <2>9. g[V] \in Int /\ f[x] \in Int /\ f[p] \in Int
    BY <1>5, <2>3, <2>4, <2>6
  <2>10. QED
    BY <2>3, <2>4, <2>7, <2>8, <2>9
<1>7. {} \in SUBSET S /\ S \in SUBSET S /\ \A x \in S : S \ {x} \in SUBSET S
  OBVIOUS
<1>8. QED
  BY <1>3, <1>4, <1>5, <1>6, <1>7, Zenon

LEMMA SumWithout ==
  ASSUME NEW f, NEW S, IsFiniteSet(S), \A z \in S : f[z] \in Int, NEW x \in S
  PROVE  SumFunctionOnSet(f, S) = f[x] + SumFunctionOnSet(f, S \ {x})
BY SumStep

\* What is added up counts, and not how the function is written.
LEMMA SumScale ==
  ASSUME NEW f, NEW g, NEW c \in Int, NEW S, IsFiniteSet(S),
         \A x \in S : f[x] \in Int /\ g[x] = c * f[x]
  PROVE  SumFunctionOnSet(g, S) = c * SumFunctionOnSet(f, S)
<1> DEFINE Wrong == {T \in SUBSET S : SumFunctionOnSet(g, T) # c * SumFunctionOnSet(f, T)}
<1>1. SUFFICES ASSUME Wrong # {}
               PROVE  FALSE
  OBVIOUS
<1>2. \A T \in SUBSET S : IsFiniteSet(T)
  BY FS_Subset
<1>3. PICK T \in Wrong : \A x \in T : T \ {x} \notin Wrong
  BY <1>1, <1>2, SmallestSet, Zenon
<1>4. IsFiniteSet(T) /\ \A x \in T : f[x] \in Int /\ g[x] \in Int
  BY <1>2
<1>5. PICK a \in Int : a = SumFunctionOnSet(f, T)
  BY <1>4, SumStep, Zenon
<1>6. PICK b \in Int : b = SumFunctionOnSet(g, T)
  BY <1>4, SumStep, Zenon
<1>7. PICK x : x \in T
  <2>1. SumFunctionOnSet(f, {}) = 0 /\ SumFunctionOnSet(g, {}) = 0
    BY <1>4, SumStep, Zenon
  <2>2. T # {}
    BY <2>1
  <2>3. QED
    BY <2>2
<1>8. SumFunctionOnSet(f, T) = f[x] + SumFunctionOnSet(f, T \ {x}) /\ SumFunctionOnSet(g, T) = g[x] + SumFunctionOnSet(g, T \ {x})
  BY <1>4, <1>7, SumWithout
<1>9. SumFunctionOnSet(g, T \ {x}) = c * SumFunctionOnSet(f, T \ {x})
  BY <1>3, <1>7
<1>10. PICK d \in Int : d = SumFunctionOnSet(f, T \ {x})
  <2>1. IsFiniteSet(T \ {x}) /\ \A z \in T \ {x} : f[z] \in Int
    BY <1>2, <1>4
  <2>2. QED
    BY <2>1, SumStep, Zenon
<1>11. PICK e \in Int : e = f[x] /\ g[x] = c * e
  BY <1>4, <1>7
<1>12. a = e + d /\ b = c * e + c * d
  BY <1>5, <1>6, <1>8, <1>9, <1>10, <1>11
<1>13. b = c * a
  BY <1>12
<1>14. QED
  BY <1>5, <1>6, <1>13

LEMMA SumEqual ==
  ASSUME NEW f, NEW g, NEW S, IsFiniteSet(S), \A x \in S : f[x] \in Int /\ g[x] = f[x]
  PROVE  SumFunctionOnSet(g, S) = SumFunctionOnSet(f, S)
<1>1. \A x \in S : f[x] \in Int /\ g[x] = 1 * f[x]
  OBVIOUS
<1>2. PICK c \in Int : c = 1 /\ \A x \in S : f[x] \in Int /\ g[x] = c * f[x]
  BY <1>1
<1>3. SumFunctionOnSet(g, S) = c * SumFunctionOnSet(f, S)
  BY <1>2, SumScale
<1>4. SumFunctionOnSet(f, S) \in Int
  BY SumStep, Zenon
<1>5. QED
  BY <1>2, <1>3, <1>4

\* Ones count.
LEMMA SumOnes ==
  ASSUME NEW f, NEW S, IsFiniteSet(S), \A x \in S : f[x] = 1
  PROVE  SumFunctionOnSet(f, S) = Cardinality(S)
<1> DEFINE Wrong == {T \in SUBSET S : SumFunctionOnSet(f, T) # Cardinality(T)}
<1>1. SUFFICES ASSUME Wrong # {}
               PROVE  FALSE
  OBVIOUS
<1>2. \A T \in SUBSET S : IsFiniteSet(T)
  BY FS_Subset
<1>3. PICK T \in Wrong : \A x \in T : T \ {x} \notin Wrong
  BY <1>1, <1>2, SmallestSet, Zenon
<1>4. IsFiniteSet(T) /\ \A x \in T : f[x] \in Int
  BY <1>2
<1>5. PICK x : x \in T
  <2>1. SumFunctionOnSet(f, {}) = 0 /\ Cardinality({}) = 0
    BY <1>4, SumStep, FS_EmptySet, Zenon
  <2>2. T # {}
    BY <2>1
  <2>3. QED
    BY <2>2
<1>6. SumFunctionOnSet(f, T) = f[x] + SumFunctionOnSet(f, T \ {x})
  BY <1>4, <1>5, SumWithout
<1>7. SumFunctionOnSet(f, T \ {x}) = Cardinality(T \ {x})
  BY <1>3, <1>5
<1>8. Cardinality(T \ {x}) = Cardinality(T) - 1
  BY <1>4, <1>5, FS_RemoveElement, Zenon
<1>9. Cardinality(T) \in Nat /\ f[x] = 1
  BY <1>4, <1>5, FS_CardinalityType
<1>10. SumFunctionOnSet(f, T) # Cardinality(T)
  OBVIOUS
<1>11. QED
  BY <1>6, <1>7, <1>8, <1>9, <1>10

\* Two parts.
LEMMA SumUnion ==
  ASSUME NEW f, NEW A, IsFiniteSet(A), NEW B, IsFiniteSet(B), A \cap B = {},
         \A x \in A \cup B : f[x] \in Int
  PROVE  SumFunctionOnSet(f, A \cup B) = SumFunctionOnSet(f, A) + SumFunctionOnSet(f, B)
<1> DEFINE Wrong == {T \in SUBSET B : SumFunctionOnSet(f, A \cup T) # SumFunctionOnSet(f, A) + SumFunctionOnSet(f, T)}
<1>1. SUFFICES ASSUME Wrong # {}
               PROVE  FALSE
  OBVIOUS
<1>2. \A T \in SUBSET B : IsFiniteSet(T) /\ IsFiniteSet(A \cup T)
  BY FS_Subset, FS_Union
<1>3. PICK T \in Wrong : \A x \in T : T \ {x} \notin Wrong
  BY <1>1, <1>2, SmallestSet, Zenon
<1>4. IsFiniteSet(T) /\ IsFiniteSet(A \cup T) /\ T \subseteq B
  BY <1>2
<1>5. /\ \A x \in T : f[x] \in Int
      /\ \A x \in A : f[x] \in Int
      /\ \A x \in A \cup T : f[x] \in Int
  BY <1>4
<1>6. PICK a \in Int : a = SumFunctionOnSet(f, A)
  BY <1>5, SumStep, Zenon
<1>7. PICK x : x \in T
  <2>1. SumFunctionOnSet(f, {}) = 0 /\ A \cup {} = A
    BY <1>4, <1>5, SumStep, Zenon
  <2>2. a = a + 0
    OBVIOUS
  <2>3. T # {}
    BY <1>6, <2>1, <2>2
  <2>4. QED
    BY <2>3
<1>8. (A \cup T) \ {x} = A \cup (T \ {x})
  BY <1>4, <1>7
<1>9. /\ SumFunctionOnSet(f, A \cup T) = f[x] + SumFunctionOnSet(f, A \cup (T \ {x}))
      /\ SumFunctionOnSet(f, T) = f[x] + SumFunctionOnSet(f, T \ {x})
  <2>1. x \in A \cup T
    BY <1>7
  <2>2. SumFunctionOnSet(f, A \cup T) = f[x] + SumFunctionOnSet(f, (A \cup T) \ {x})
    BY <1>4, <1>5, <2>1, SumWithout
  <2>3. SumFunctionOnSet(f, T) = f[x] + SumFunctionOnSet(f, T \ {x})
    BY <1>4, <1>5, <1>7, SumWithout
  <2>4. QED
    BY <1>8, <2>2, <2>3
<1>10. SumFunctionOnSet(f, A \cup (T \ {x})) = SumFunctionOnSet(f, A) + SumFunctionOnSet(f, T \ {x})
  <2>1. T \ {x} \in SUBSET B
    BY <1>4
  <2>2. QED
    BY <1>3, <1>7, <2>1
<1>11. PICK d \in Int : d = SumFunctionOnSet(f, T \ {x})
  <2>1. IsFiniteSet(T \ {x}) /\ \A z \in T \ {x} : f[z] \in Int
    BY <1>2, <1>4, <1>5
  <2>2. QED
    BY <2>1, SumStep, Zenon
<1>12. PICK e \in Int : e = f[x]
  BY <1>5, <1>7
<1>13. SumFunctionOnSet(f, A \cup T) = SumFunctionOnSet(f, A) + SumFunctionOnSet(f, T)
  BY <1>6, <1>9, <1>10, <1>11, <1>12
<1>14. QED
  BY <1>13

\* The same under other names: g has of i what f has of the pair with w.
Row(g, f, w, S) == \A i \in S : f[<<w, i>>] \in Int /\ g[i] = f[<<w, i>>]

LEMMA SumPaired ==
  ASSUME NEW f, NEW g, NEW w, NEW S, IsFiniteSet(S), Row(g, f, w, S)
  PROVE  IsFiniteSet({w} \X S) /\ SumFunctionOnSet(f, {w} \X S) = SumFunctionOnSet(g, S)
<1> DEFINE Wrong == {T \in SUBSET S : ~ (/\ IsFiniteSet({w} \X T)
                                         /\ SumFunctionOnSet(f, {w} \X T) = SumFunctionOnSet(g, T))}
<1>1. SUFFICES ASSUME Wrong # {}
               PROVE  FALSE
  OBVIOUS
<1>2. \A T \in SUBSET S : IsFiniteSet(T)
  BY FS_Subset
<1>3. PICK T \in Wrong : \A x \in T : T \ {x} \notin Wrong
  BY <1>1, <1>2, SmallestSet, Zenon
<1>4. /\ IsFiniteSet(T) /\ T \subseteq S
      /\ \A i \in S : f[<<w, i>>] \in Int /\ g[i] = f[<<w, i>>]
      /\ \A i \in T : g[i] \in Int
  BY <1>2 DEF Row
<1>5. SumFunctionOnSet(g, {}) = 0 /\ SumFunctionOnSet(f, {}) = 0 /\ IsFiniteSet({})
  <2>1. IsFiniteSet({}) /\ \A i \in {} : f[i] \in Int
    BY FS_EmptySet
  <2>2. QED
    BY <1>4, <2>1, SumStep, Zenon
<1>6. PICK x : x \in T
  <2>1. {w} \X {} = {}
    OBVIOUS
  <2>2. T # {}
    BY <1>5, <2>1
  <2>3. QED
    BY <2>2
<1>7. PICK U : U = {w} \X (T \ {x})
  OBVIOUS
<1>8. IsFiniteSet(U) /\ SumFunctionOnSet(f, U) = SumFunctionOnSet(g, T \ {x})
  BY <1>3, <1>4, <1>6, <1>7
<1>9. {w} \X T = U \cup {<<w, x>>} /\ <<w, x>> \notin U /\ ({w} \X T) \ {<<w, x>>} = U
  BY <1>6, <1>7
<1>10. IsFiniteSet({w} \X T)
  BY <1>8, <1>9, FS_AddElement
<1>11. \A z \in {w} \X T : f[z] \in Int
  BY <1>4
<1>12. SumFunctionOnSet(f, {w} \X T) = f[<<w, x>>] + SumFunctionOnSet(f, U)
  <2>1. <<w, x>> \in {w} \X T
    BY <1>6
  <2>2. SumFunctionOnSet(f, {w} \X T) = f[<<w, x>>] + SumFunctionOnSet(f, ({w} \X T) \ {<<w, x>>})
    BY <1>10, <1>11, <2>1, SumWithout
  <2>3. QED
    BY <1>9, <2>2
<1>13. SumFunctionOnSet(g, T) = g[x] + SumFunctionOnSet(g, T \ {x})
  BY <1>4, <1>6, SumWithout
<1>14. g[x] = f[<<w, x>>]
  BY <1>4, <1>6
<1>15. QED
  BY <1>8, <1>10, <1>12, <1>13, <1>14

\* The pairs of a worker and one of its n[w] numbers.
Pairs(C, n) == UNION {{w} \X (1 .. n[w]) : w \in C}

\* f is given for the pairs, g row by row, and h has the sum of each row.
Tabulated(f, g, h, C, n) ==
  /\ \A w \in C : n[w] \in Nat
  /\ \A p \in Pairs(C, n) : f[p] \in Int
  /\ \A w \in C : \A i \in 1 .. n[w] : g[w][i] = f[<<w, i>>]
  /\ \A w \in C : h[w] = SumFunctionOnSet(g[w], 1 .. n[w])

\* All of them is those of each worker.
LEMMA SumPairs ==
  ASSUME NEW C, NEW n, NEW f, NEW g, NEW h, IsFiniteSet(C), Tabulated(f, g, h, C, n)
  PROVE  IsFiniteSet(Pairs(C, n)) /\ SumFunctionOnSet(f, Pairs(C, n)) = SumFunctionOnSet(h, C)
<1> USE DEF Tabulated
<1> DEFINE Wrong == {T \in SUBSET C : ~ (/\ IsFiniteSet(Pairs(T, n))
                                         /\ SumFunctionOnSet(f, Pairs(T, n)) = SumFunctionOnSet(h, T))}
<1>1. SUFFICES ASSUME Wrong # {}
               PROVE  FALSE
  OBVIOUS
<1>2. \A T \in SUBSET C : IsFiniteSet(T)
  BY FS_Subset
<1>3. PICK T \in Wrong : \A x \in T : T \ {x} \notin Wrong
  BY <1>1, <1>2, SmallestSet, Zenon
<1>4. IsFiniteSet(T) /\ T \subseteq C
  BY <1>2
<1>5. ASSUME NEW w \in C
      PROVE  /\ IsFiniteSet({w} \X (1 .. n[w])) /\ SumFunctionOnSet(f, {w} \X (1 .. n[w])) = h[w]
             /\ h[w] \in Int
  <2>1. IsFiniteSet(1 .. n[w])
    BY FS_Interval
  <2>2. \A i \in 1 .. n[w] : f[<<w, i>>] \in Int /\ g[w][i] \in Int /\ g[w][i] = f[<<w, i>>]
    <3>1. \A i \in 1 .. n[w] : <<w, i>> \in Pairs(C, n)
      BY DEF Pairs
    <3>2. QED
      BY <3>1
  <2>3. /\ IsFiniteSet({w} \X (1 .. n[w]))
        /\ SumFunctionOnSet(f, {w} \X (1 .. n[w])) = SumFunctionOnSet(g[w], 1 .. n[w])
    <3>1. Row(g[w], f, w, 1 .. n[w])
      BY <2>2 DEF Row
    <3>2. QED
      BY <2>1, <3>1, SumPaired
  <2>4. SumFunctionOnSet(g[w], 1 .. n[w]) \in Int
    BY <2>1, <2>2, SumStep, Zenon
  <2>5. QED
    BY <2>3, <2>4
<1>6. Pairs({}, n) = {} /\ SumFunctionOnSet(h, {}) = 0 /\ SumFunctionOnSet(f, {}) = 0 /\ IsFiniteSet({})
  <2>1. Pairs({}, n) = {}
    BY DEF Pairs
  <2>2. IsFiniteSet({}) /\ (\A i \in {} : f[i] \in Int) /\ \A i \in {} : h[i] \in Int
    BY FS_EmptySet
  <2>3. QED
    BY <2>1, <2>2, SumStep, Zenon
<1>7. PICK w : w \in T
  BY <1>6
<1>8. PICK A, B : A = Pairs(T \ {w}, n) /\ B = {w} \X (1 .. n[w])
  OBVIOUS
<1>9. Pairs(T, n) = A \cup B /\ A \cap B = {} /\ A \cup B \subseteq Pairs(C, n)
  BY <1>4, <1>7, <1>8 DEF Pairs
<1>10. IsFiniteSet(A) /\ SumFunctionOnSet(f, A) = SumFunctionOnSet(h, T \ {w})
  BY <1>3, <1>4, <1>7, <1>8
<1>11. IsFiniteSet(B) /\ SumFunctionOnSet(f, B) = h[w]
  BY <1>4, <1>5, <1>7, <1>8
<1>12. SumFunctionOnSet(f, A \cup B) = SumFunctionOnSet(f, A) + SumFunctionOnSet(f, B)
  <2>1. \A x \in A \cup B : f[x] \in Int
    BY <1>9
  <2>2. QED
    BY <1>9, <1>10, <1>11, <2>1, SumUnion, Zenon
<1>13. SumFunctionOnSet(h, T) = h[w] + SumFunctionOnSet(h, T \ {w}) /\ SumFunctionOnSet(h, T \ {w}) \in Int /\ h[w] \in Int
  <2>1. \A x \in T : h[x] \in Int
    BY <1>4, <1>5
  <2>2. SumFunctionOnSet(h, T) = h[w] + SumFunctionOnSet(h, T \ {w})
    BY <1>4, <1>7, <2>1, SumWithout
  <2>3. IsFiniteSet(T \ {w}) /\ \A x \in T \ {w} : h[x] \in Int
    BY <1>2, <1>4, <2>1
  <2>4. SumFunctionOnSet(h, T \ {w}) \in Int
    BY <2>3, SumStep, Zenon
  <2>5. QED
    BY <1>7, <2>1, <2>2, <2>4
<1>14. IsFiniteSet(A \cup B)
  BY <1>10, <1>11, FS_Union
<1>15. SumFunctionOnSet(f, Pairs(T, n)) = SumFunctionOnSet(h, T)
  BY <1>9, <1>10, <1>11, <1>12, <1>13
<1>16. IsFiniteSet(Pairs(T, n))
  BY <1>9, <1>14
<1>17. QED
  BY <1>15, <1>16

-----------------------------------------------------------------------------
(* A weighted average of exact averages.                                   *)

\* Every value of f on S is a multiple of q.
Multiples(f, S, q) == \E k : \A x \in S : k[x] \in Int /\ f[x] = q * k[x]

\* A sum of multiples is divided without a remainder.
LEMMA ExactDivision ==
  ASSUME NEW f, NEW S, NEW q \in Int, NEW m \in Nat \ {0},
         IsFiniteSet(S), Multiples(f, S, q), q % m = 0
  PROVE  /\ SumFunctionOnSet(f, S) \in Int
         /\ (SumFunctionOnSet(f, S) \div m) * m = SumFunctionOnSet(f, S)
<1>1. PICK k : \A x \in S : k[x] \in Int /\ f[x] = q * k[x]
  BY DEF Multiples
<1>2. PICK a \in Int : a = SumFunctionOnSet(k, S)
  <2>1. \A x \in S : k[x] \in Int
    BY <1>1
  <2>2. QED
    BY <2>1, SumStep, Zenon
<1>3. SumFunctionOnSet(f, S) = q * a
  BY <1>1, <1>2, SumScale
<1>4. PICK d \in Int : d = q \div m
  OBVIOUS
<1>5. q = d * m
  BY <1>4
<1>6. PICK z, e \in Int : e = d * a /\ z = e * m
  OBVIOUS
<1>7. z = q * a
  BY <1>5, <1>6
<1>8. PICK r, c \in Int : r = z \div m /\ c = z % m
  OBVIOUS
<1>9. z = r * m + c /\ 0 <= c /\ c < m
  BY <1>8
<1>10. e > r => (e - r) * m >= m
  OBVIOUS
<1>11. e < r => (r - e) * m >= m
  OBVIOUS
<1>12. (e - r) * m = c /\ (r - e) * m = -c
  BY <1>6, <1>9
<1>13. e = r
  BY <1>9, <1>10, <1>11, <1>12
<1>14. QED
  BY <1>3, <1>6, <1>7, <1>8, <1>13

\* What each worker w sends, v[w], is the average of its n[w] values.
Averaged(v, f, C, n) ==
  \A w \in C : v[w] = SumFunctionOnSet([i \in 1 .. n[w] |-> f[<<w, i>>]], 1 .. n[w]) \div n[w]

\* Each of them counted n[w] times is all the values.
LEMMA AveragesAddUp ==
  ASSUME NEW C, NEW n, NEW f, NEW v, NEW q \in Int, IsFiniteSet(C),
         Averaged(v, f, C, n), Multiples(f, Pairs(C, n), q),
         \A w \in C : n[w] \in Nat \ {0} /\ q % n[w] = 0
  PROVE  SumFunctionOnSet([w \in C |-> v[w] * n[w]], C) = SumFunctionOnSet(f, Pairs(C, n))
<1> DEFINE g == [w \in C |-> [i \in 1 .. n[w] |-> f[<<w, i>>]]]
           h == [w \in C |-> v[w] * n[w]]
<1>1. \A w \in C : \A i \in 1 .. n[w] : <<w, i>> \in Pairs(C, n)
  BY DEF Pairs
<1>2. PICK k : \A p \in Pairs(C, n) : k[p] \in Int /\ f[p] = q * k[p]
  BY DEF Multiples
<1>3. \A p \in Pairs(C, n) : f[p] \in Int
  BY <1>2
<1>4. ASSUME NEW w \in C
      PROVE  h[w] = SumFunctionOnSet(g[w], 1 .. n[w])
  <2>1. Multiples(g[w], 1 .. n[w], q)
    <3>1. PICK l : l = [i \in 1 .. n[w] |-> k[<<w, i>>]]
      OBVIOUS
    <3>2. \A i \in 1 .. n[w] : l[i] \in Int /\ g[w][i] = q * l[i]
      BY <1>1, <1>2, <3>1
    <3>3. QED
      BY <3>2 DEF Multiples
  <2>2. IsFiniteSet(1 .. n[w])
    BY FS_Interval
  <2>3. PICK m \in Nat \ {0} : m = n[w] /\ q % m = 0
    OBVIOUS
  <2>4. PICK gw : gw = g[w]
    OBVIOUS
  <2>5. (SumFunctionOnSet(gw, 1 .. m) \div m) * m = SumFunctionOnSet(gw, 1 .. m)
    BY <2>1, <2>2, <2>3, <2>4, ExactDivision
  <2>6. v[w] = SumFunctionOnSet(gw, 1 .. m) \div m
    BY <2>3, <2>4 DEF Averaged
  <2>7. QED
    BY <2>3, <2>4, <2>5, <2>6
<1>5. \A w \in C : \A i \in 1 .. n[w] : g[w][i] = f[<<w, i>>]
  OBVIOUS
<1>6. \A w \in C : n[w] \in Nat
  OBVIOUS
<1>7. Tabulated(f, g, h, C, n)
  BY <1>3, <1>4, <1>5, <1>6 DEF Tabulated
<1>8. QED
  BY <1>7, SumPairs

\* How many they are together.
LEMMA CountsAddUp ==
  ASSUME NEW C, NEW n, IsFiniteSet(C), \A w \in C : n[w] \in Nat
  PROVE  /\ IsFiniteSet(Pairs(C, n))
         /\ SumFunctionOnSet([w \in C |-> n[w]], C) = Cardinality(Pairs(C, n))
<1> DEFINE f == [p \in Pairs(C, n) |-> 1]
           g == [w \in C |-> [i \in 1 .. n[w] |-> 1]]
           h == [w \in C |-> n[w]]
<1>1. \A w \in C : \A i \in 1 .. n[w] : <<w, i>> \in Pairs(C, n)
  BY DEF Pairs
<1>2. \A p \in Pairs(C, n) : f[p] \in Int /\ f[p] = 1
  OBVIOUS
<1>3. \A w \in C : \A i \in 1 .. n[w] : g[w][i] = f[<<w, i>>]
  BY <1>1
<1>4. ASSUME NEW w \in C
      PROVE  h[w] = SumFunctionOnSet(g[w], 1 .. n[w])
  <2>1. IsFiniteSet(1 .. n[w]) /\ Cardinality(1 .. n[w]) = n[w]
    BY FS_Interval
  <2>2. \A i \in 1 .. n[w] : g[w][i] = 1
    OBVIOUS
  <2>3. SumFunctionOnSet(g[w], 1 .. n[w]) = Cardinality(1 .. n[w])
    BY <2>1, <2>2, SumOnes
  <2>4. QED
    BY <2>1, <2>3
<1>5. IsFiniteSet(Pairs(C, n)) /\ SumFunctionOnSet(f, Pairs(C, n)) = SumFunctionOnSet(h, C)
  <2>1. Tabulated(f, g, h, C, n)
    BY <1>2, <1>3, <1>4 DEF Tabulated
  <2>2. QED
    BY <2>1, SumPairs
<1>6. SumFunctionOnSet(f, Pairs(C, n)) = Cardinality(Pairs(C, n))
  BY <1>2, <1>5, SumOnes
<1>7. QED
  BY <1>5, <1>6

-----------------------------------------------------------------------------
(* The gradients of a round.                                               *)

ShardsOK == shard \in [Workers -> Shards]

Quarter == Unit \div 4

Counts(C) == [w \in C |-> Len(shard[w])]

\* What a shard is.
LEMMA ShardParts ==
  ASSUME ShardsOK, NEW w \in Workers
  PROVE  /\ Len(shard[w]) \in Nat \ {0} /\ DOMAIN shard[w] = 1 .. Len(shard[w])
         /\ Quarter % Len(shard[w]) = 0
         /\ \A i \in 1 .. Len(shard[w]) :
              shard[w][i].y \in {0, 1} /\ \A j \in Indices : shard[w][i].x[j] \in Int
<1>1. PICK sh : sh = shard[w] /\ sh \in Shards
  BY DEF ShardsOK
<1>2. /\ sh \in Seq([x : [Indices -> Int], y : {0, 1}]) /\ sh # <<>>
      /\ Quarter % Len(sh) = 0
  BY <1>1, ArithmeticAssumption DEF Indices, Quarter
<1>3. /\ Len(sh) \in Nat /\ DOMAIN sh = 1 .. Len(sh)
      /\ \A i \in 1 .. Len(sh) : sh[i] \in [x : [Indices -> Int], y : {0, 1}]
      /\ Len(sh) # 0
  <2>1. PICK R : R = [x : [Indices -> Int], y : {0, 1}] /\ sh \in Seq(R)
    BY <1>2
  <2>2. Len(sh) \in Nat /\ DOMAIN sh = 1 .. Len(sh) /\ \A i \in 1 .. Len(sh) : sh[i] \in R
    BY <2>1, LenProperties, ElementOfSeq
  <2>3. Len(sh) # 0
    BY <1>2, <2>1, EmptySeq
  <2>4. QED
    BY <2>1, <2>2, <2>3
<1>4. \A i \in 1 .. Len(sh) : sh[i].y \in {0, 1} /\ \A j \in Indices : sh[i].x[j] \in Int
  BY <1>3
<1>5. QED
  BY <1>1, <1>2, <1>3, <1>4

\* Predictions are quarters, and so are errors and losses.
LEMMA Quarters ==
  ASSUME NEW sample, sample.y \in {0, 1}
  PROVE  /\ Quarter \in Int
         /\ \E k \in Int : Error(sample) = Quarter * k
         /\ \E k \in Int : LogLoss(sample) = Quarter * k
<1>1. PICK q \in Int : q = Quarter /\ Unit = 4 * q
  BY ArithmeticAssumption DEF Quarter
<1>2. PICK c \in Int : Pred(sample) = c * q
  <2>1. PICK x : Pred(sample) = sigmoid(x)
    BY DEF Pred
  <2>2. sigmoid(x) \in {1 * q, 2 * q, 3 * q}
    BY <1>1 DEF sigmoid, Quarter
  <2>3. QED
    BY <2>1, <2>2
<1>3. PICK y \in Int : y = sample.y
  OBVIOUS
<1>4. Error(sample) = q * (c - 4 * y) /\ c - 4 * y \in Int
  <2>1. Error(sample) = c * q - y * Unit
    BY <1>2, <1>3 DEF Error
  <2>2. CASE y = 0
    BY <1>1, <2>1, <2>2
  <2>3. CASE y = 1
    BY <1>1, <2>1, <2>3
  <2>4. QED
    BY <1>3, <2>2, <2>3
<1>5. LogLoss(sample) = q * (4 - c) \/ LogLoss(sample) = q * c
  BY <1>1, <1>2 DEF LogLoss
<1>6. PICK a, b, d \in Int : a = c - 4 * y /\ b = 4 - c /\ d = c
  OBVIOUS
<1>7. Error(sample) = q * a /\ (LogLoss(sample) = q * b \/ LogLoss(sample) = q * d)
  BY <1>4, <1>5, <1>6
<1>8. QED
  BY <1>1, <1>6, <1>7

\* The pooled samples are those of the workers, and all that is added up is quarters.
LEMMA PooledParts ==
  ASSUME ShardsOK, NEW C \in SUBSET Workers
  PROVE  /\ IsFiniteSet(C) /\ Pooled(C) = Pairs(C, Counts(C)) /\ Quarter \in Int
         /\ \A w \in C : Counts(C)[w] \in Nat \ {0} /\ Quarter % Counts(C)[w] = 0
         /\ \A p \in Pooled(C) : Sample(p).y \in {0, 1} /\ \A j \in Indices : Sample(p).x[j] \in Int
<1>1. IsFiniteSet(C)
  BY ArithmeticAssumption, FS_Subset
<1>2. \A w \in C : Counts(C)[w] = Len(shard[w])
  BY DEF Counts
<1>3. Pooled(C) = Pairs(C, Counts(C))
  BY <1>2 DEF Pooled, Pairs
<1>4. \A w \in C : Counts(C)[w] \in Nat \ {0} /\ Quarter % Counts(C)[w] = 0
  BY <1>2, ShardParts
<1>5. ASSUME NEW p \in Pooled(C)
      PROVE  Sample(p).y \in {0, 1} /\ \A j \in Indices : Sample(p).x[j] \in Int
  <2>1. PICK w \in C : p \in {w} \X (1 .. Len(shard[w]))
    BY DEF Pooled
  <2>2. w \in Workers /\ p[1] = w /\ p[2] \in 1 .. Len(shard[w])
    BY <2>1
  <2>3. Sample(p) = shard[w][p[2]]
    BY <2>2 DEF Sample
  <2>4. QED
    BY <2>2, <2>3, ShardParts
<1>6. Quarter \in Int
  BY ArithmeticAssumption DEF Quarter
<1>7. QED
  BY <1>1, <1>3, <1>4, <1>5, <1>6

\* What the server makes of what each worker sends is the average of all samples.
LEMMA RoundAverage ==
  ASSUME ShardsOK, NEW C \in SUBSET Workers, C # {}, Cardinality(Pooled(C)) <= IntMax,
         NEW f, NEW v, Averaged(v, f, C, Counts(C)), Multiples(f, Pooled(C), Quarter)
  PROVE  LET total == AsInt(SumFunction([w \in C |-> num_samples(w)]))
         IN  /\ total > 0
             /\ SumFunction([w \in C |-> v[w] * num_samples(w)]) \div total
                  = SumFunctionOnSet(f, Pooled(C)) \div Cardinality(Pooled(C))
<1>1. PICK n, P : n = Counts(C) /\ P = Pairs(C, n)
  OBVIOUS
<1>2. /\ IsFiniteSet(C) /\ Pooled(C) = P /\ Quarter \in Int
      /\ \A w \in C : n[w] \in Nat \ {0} /\ Quarter % n[w] = 0
  BY <1>1, PooledParts
<1>3. /\ [w \in C |-> num_samples(w)] = [w \in C |-> n[w]]
      /\ [w \in C |-> v[w] * num_samples(w)] = [w \in C |-> v[w] * n[w]]
  BY <1>1 DEF num_samples, Counts
<1>4. /\ SumFunction([w \in C |-> n[w]]) = SumFunctionOnSet([w \in C |-> n[w]], C)
      /\ SumFunction([w \in C |-> v[w] * n[w]]) = SumFunctionOnSet([w \in C |-> v[w] * n[w]], C)
  BY DEF SumFunction
<1>5. IsFiniteSet(P) /\ SumFunctionOnSet([w \in C |-> n[w]], C) = Cardinality(P)
  BY <1>1, <1>2, CountsAddUp
<1>6. SumFunctionOnSet([w \in C |-> v[w] * n[w]], C) = SumFunctionOnSet(f, P)
  BY <1>1, <1>2, AveragesAddUp
<1>7. P # {}
  <2>1. PICK w \in C : 1 \in 1 .. n[w]
    BY <1>2
  <2>2. <<w, 1>> \in P
    BY <1>1, <2>1 DEF Pairs
  <2>3. QED
    BY <2>2
<1>8. PICK c \in Nat \ {0} : c = Cardinality(P) /\ c <= IntMax
  BY <1>2, <1>5, <1>7, FS_CardinalityType, FS_EmptySet
<1>9. AsInt(c) = c
  <2>1. IntMax \in Nat
    BY ArithmeticAssumption
  <2>2. PICK m \in Nat : m = c + IntMax + 1 /\ m < 2 * (IntMax + 1)
    BY <1>8, <2>1
  <2>3. m % (2 * (IntMax + 1)) = m
    BY <2>1, <2>2
  <2>4. QED
    BY <1>8, <2>1, <2>2, <2>3 DEF AsInt
<1>10. QED
  BY <1>2, <1>3, <1>4, <1>5, <1>6, <1>8, <1>9

\* The gradients are averages of the workers' own samples.
LEMMA GradientsAreAverages ==
  ASSUME ShardsOK, NEW C \in SUBSET Workers, NEW j \in Indices,
         NEW f, f = [p \in Pooled(C) |-> Error(Sample(p)) * Sample(p).x[j]],
         NEW v, v = [w \in C |-> compute_gradient(shard[w]).grad[j]]
  PROVE  Averaged(v, f, C, Counts(C)) /\ Multiples(f, Pooled(C), Quarter)
<1>1. ASSUME NEW w \in C
      PROVE  v[w] = SumFunctionOnSet([i \in 1 .. Counts(C)[w] |-> f[<<w, i>>]],
                                     1 .. Counts(C)[w]) \div Counts(C)[w]
  <2>1. PICK n : n = Len(shard[w]) /\ n = Counts(C)[w] /\ DOMAIN shard[w] = 1 .. n
    BY ShardParts DEF Counts
  <2>2. v[w] = SumFunction([i \in 1 .. n |-> Error(shard[w][i]) * shard[w][i].x[j]]) \div n
    BY <2>1 DEF compute_gradient
  <2>3. \A i \in 1 .. n : f[<<w, i>>] = Error(shard[w][i]) * shard[w][i].x[j]
    <3>1. \A i \in 1 .. n : <<w, i>> \in Pooled(C)
      <4>1. \A i \in 1 .. n : <<w, i>> \in {w} \X (1 .. Len(shard[w]))
        BY <2>1
      <4>2. QED
        BY <4>1, Zenon DEF Pooled
    <3>2. QED
      BY <3>1 DEF Sample
  <2>4. [i \in 1 .. n |-> Error(shard[w][i]) * shard[w][i].x[j]] = [i \in 1 .. n |-> f[<<w, i>>]]
    BY <2>3
  <2>5. QED
    BY <2>1, <2>2, <2>4 DEF SumFunction
<1>2. Multiples(f, Pooled(C), Quarter)
  <2>1. \A p \in Pooled(C) : \E k \in Int : f[p] = Quarter * k
    <3> SUFFICES ASSUME NEW p \in Pooled(C)
                 PROVE  \E k \in Int : f[p] = Quarter * k
      OBVIOUS
    <3>1. Sample(p).y \in {0, 1} /\ Sample(p).x[j] \in Int /\ Quarter \in Int
      BY PooledParts
    <3>2. PICK k \in Int : Error(Sample(p)) = Quarter * k
      <4>1. PICK sample : sample = Sample(p) /\ sample.y \in {0, 1}
        BY <3>1
      <4>2. QED
        BY <4>1, Quarters
    <3>3. PICK q, x, m \in Int : q = Quarter /\ x = Sample(p).x[j] /\ m = k * x
      BY <3>1
    <3>4. f[p] = q * m
      BY <3>2, <3>3
    <3>5. QED
      BY <3>3, <3>4
  <2>2. PICK k : k = [p \in Pooled(C) |-> CHOOSE m \in Int : f[p] = Quarter * m]
    OBVIOUS
  <2>3. \A p \in Pooled(C) : k[p] \in Int /\ f[p] = Quarter * k[p]
    BY <2>1, <2>2
  <2>4. QED
    BY <2>3 DEF Multiples
<1>3. QED
  BY <1>1, <1>2 DEF Averaged

\* And so are the losses.
LEMMA LossesAreAverages ==
  ASSUME ShardsOK, NEW C \in SUBSET Workers,
         NEW f, f = [p \in Pooled(C) |-> LogLoss(Sample(p))],
         NEW v, v = [w \in C |-> compute_gradient(shard[w]).loss]
  PROVE  Averaged(v, f, C, Counts(C)) /\ Multiples(f, Pooled(C), Quarter)
<1>1. ASSUME NEW w \in C
      PROVE  v[w] = SumFunctionOnSet([i \in 1 .. Counts(C)[w] |-> f[<<w, i>>]],
                                     1 .. Counts(C)[w]) \div Counts(C)[w]
  <2>1. PICK n : n = Len(shard[w]) /\ n = Counts(C)[w] /\ DOMAIN shard[w] = 1 .. n
    BY ShardParts DEF Counts
  <2>2. v[w] = SumFunction([i \in 1 .. n |-> LogLoss(shard[w][i])]) \div n
    BY <2>1 DEF compute_gradient
  <2>3. \A i \in 1 .. n : f[<<w, i>>] = LogLoss(shard[w][i])
    <3>1. \A i \in 1 .. n : <<w, i>> \in Pooled(C)
      <4>1. \A i \in 1 .. n : <<w, i>> \in {w} \X (1 .. Len(shard[w]))
        BY <2>1
      <4>2. QED
        BY <4>1, Zenon DEF Pooled
    <3>2. QED
      BY <3>1 DEF Sample
  <2>4. [i \in 1 .. n |-> LogLoss(shard[w][i])] = [i \in 1 .. n |-> f[<<w, i>>]]
    BY <2>3
  <2>5. QED
    BY <2>1, <2>2, <2>4 DEF SumFunction
<1>2. Multiples(f, Pooled(C), Quarter)
  <2>1. \A p \in Pooled(C) : \E k \in Int : f[p] = Quarter * k
    BY PooledParts, Quarters
  <2>2. PICK k : k = [p \in Pooled(C) |-> CHOOSE m \in Int : f[p] = Quarter * m]
    OBVIOUS
  <2>3. \A p \in Pooled(C) : k[p] \in Int /\ f[p] = Quarter * k[p]
    BY <2>1, <2>2
  <2>4. QED
    BY <2>3 DEF Multiples
<1>3. QED
  BY <1>1, <1>2 DEF Averaged

\* Whatever shards the contributors have: a round is one step of gradient descent
\* on all their samples.
LEMMA RoundIsCentralised ==
  ASSUME ShardsOK, NEW C \in SUBSET Workers, C # {}, aggregate_and_update(C),
         Cardinality(Pooled(C)) <= IntMax
  PROVE  /\ \A j \in Indices : weights'[j] = weights[j] - LearningRate * CentralGradient(C, j)
         /\ global_loss' = CentralLoss(C)
<1>1. PICK total : total = AsInt(SumFunction([w \in C |-> num_samples(w)]))
  OBVIOUS
<1>2. ASSUME NEW j \in Indices
      PROVE  weights'[j] = weights[j] - LearningRate * CentralGradient(C, j)
  <2>1. PICK f : f = [p \in Pooled(C) |-> Error(Sample(p)) * Sample(p).x[j]]
    OBVIOUS
  <2>2. PICK v : v = [w \in C |-> compute_gradient(shard[w]).grad[j]]
    OBVIOUS
  <2>3. /\ total > 0
        /\ SumFunction([w \in C |-> v[w] * num_samples(w)]) \div total
             = SumFunctionOnSet(f, Pooled(C)) \div Cardinality(Pooled(C))
    BY <1>1, <2>1, <2>2, GradientsAreAverages, RoundAverage
  <2>4. weights'[j] = weights[j] - LearningRate *
                        (SumFunction([w \in C |-> v[w] * num_samples(w)]) \div total)
    BY <1>1, <2>2, <2>3 DEF aggregate_and_update, update_weights
  <2>5. CentralGradient(C, j) = SumFunctionOnSet(f, Pooled(C)) \div Cardinality(Pooled(C))
    BY <2>1 DEF CentralGradient, Mean, SumFunction
  <2>6. QED
    BY <2>3, <2>4, <2>5
<1>3. global_loss' = CentralLoss(C)
  <2>1. PICK f : f = [p \in Pooled(C) |-> LogLoss(Sample(p))]
    OBVIOUS
  <2>2. PICK v : v = [w \in C |-> compute_gradient(shard[w]).loss]
    OBVIOUS
  <2>3. /\ total > 0
        /\ SumFunction([w \in C |-> v[w] * num_samples(w)]) \div total
             = SumFunctionOnSet(f, Pooled(C)) \div Cardinality(Pooled(C))
    BY <1>1, <2>1, <2>2, LossesAreAverages, RoundAverage
  <2>4. global_loss' = SumFunction([w \in C |-> v[w] * num_samples(w)]) \div total
    BY <1>1, <2>2, <2>3 DEF aggregate_and_update
  <2>5. CentralLoss(C) = SumFunctionOnSet(f, Pooled(C)) \div Cardinality(Pooled(C))
    BY <2>1 DEF CentralLoss, Mean, SumFunction
  <2>6. QED
    BY <2>3, <2>4, <2>5
<1>4. QED
  BY <1>2, <1>3

\* RoundsAreCentralised for every value of the constants: however the samples are
\* spread, and whichever workers contribute.
THEOREM TrainingIsCentralised == Spec => RoundsAreCentralised
<1> DEFINE Centralised(C) ==
             Cardinality(Pooled(C)) <= IntMax =>
               /\ \A j \in Indices :
                    weights'[j] = weights[j] - LearningRate * CentralGradient(C, j)
               /\ global_loss' = CentralLoss(C)
<1>1. Init => ShardsOK
  BY DEF Init, ShardsOK
<1>2. ShardsOK /\ [Next]_vars => ShardsOK'
  BY DEF Next, vars, ShardsOK
<1>3. ShardsOK /\ [Next]_vars => [Centralised(contributors')]_vars
  <2> SUFFICES ASSUME ShardsOK, Next
               PROVE  Centralised(contributors')
    BY DEF vars
  <2>1. PICK C \in (SUBSET Workers) \ {{}} : aggregate_and_update(C) /\ contributors' = C
    BY Zenon DEF Next
  <2>2. Centralised(C)
    <3> SUFFICES ASSUME Cardinality(Pooled(C)) <= IntMax
                 PROVE  /\ \A j \in Indices :
                             weights'[j] = weights[j] - LearningRate * CentralGradient(C, j)
                        /\ global_loss' = CentralLoss(C)
      OBVIOUS
    <3>1. C \in SUBSET Workers /\ C # {}
      OBVIOUS
    <3>2. QED
      BY <2>1, <3>1, RoundIsCentralised, Zenon
  <2>3. QED
    BY <2>1, <2>2
<1>4. QED
  BY <1>1, <1>2, <1>3, PTL DEF Spec, RoundsAreCentralised
=============================================================================
