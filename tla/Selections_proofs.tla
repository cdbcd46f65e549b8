-------------------------- MODULE Selections_proofs --------------------------
(***************************************************************************)
(* What sorting a set and filtering a list give, for every set and list.   *)
(***************************************************************************)
EXTENDS Selections, FiniteSetTheorems, SequenceTheorems, TLAPS

\* A set of natural numbers that is not empty has a least element.
LEMMA SmallestExists ==
  ASSUME NEW T \in SUBSET Nat, T # {}
  PROVE  \E m \in T : \A k \in T : m <= k
<1>1. PICK m \in T : \A k \in T : <<k, m>> \notin OpToRel(<, Nat)
  BY NatLessThanWellFounded, WFMin, Zenon
<1>2. \A k \in T : ~ (k < m)
  BY <1>1, Zenon DEF OpToRel
<1> QED
  BY <1>2

\* A finite set of natural numbers that is not empty has a greatest element.
LEMMA GreatestExists ==
  ASSUME NEW S \in SUBSET Nat, IsFiniteSet(S), S # {}
  PROVE  \E m \in S : \A k \in S : k <= m
<1> DEFINE HasMax(R) == \E m \in R : \A k \in R : k <= m
           Bad == {n \in Nat : \E R \in SUBSET Nat :
                     IsFiniteSet(R) /\ R # {} /\ Cardinality(R) = n /\ ~HasMax(R)}
<1>1. SUFFICES ASSUME Bad # {} PROVE FALSE
  <2>1. Cardinality(S) \in Nat
    BY FS_CardinalityType
  <2> QED
    BY <2>1
<1>2. PICK n \in Bad : \A k \in Bad : n <= k
  BY <1>1, SmallestExists
<1>3. PICK R \in SUBSET Nat : IsFiniteSet(R) /\ R # {} /\ Cardinality(R) = n /\ ~HasMax(R)
  BY <1>2
<1>4. PICK x \in R : TRUE
  BY <1>3
<1>5. IsFiniteSet(R \ {x}) /\ Cardinality(R \ {x}) = n - 1
  BY <1>3, <1>4, FS_RemoveElement
<1>6. R \ {x} # {}
  BY <1>3, <1>4
<1>7. n - 1 \in Nat
  BY <1>5, FS_CardinalityType
<1>8. n - 1 \notin Bad
  BY <1>2, <1>7
<1>9. HasMax(R \ {x})
  BY <1>5, <1>6, <1>7, <1>8
<1> QED
  BY <1>3, <1>4, <1>9

\* Every finite set of numbers can be listed in ascending order.
LEMMA AscendingExists ==
  ASSUME NEW S \in SUBSET Nat, IsFiniteSet(S)
  PROVE  \E s \in [1 .. Cardinality(S) -> S] : Ascending(s)
<1> DEFINE Lists(R) == \E s \in [1 .. Cardinality(R) -> R] : Ascending(s)
           Bad == {n \in Nat : \E R \in SUBSET Nat :
                     IsFiniteSet(R) /\ Cardinality(R) = n /\ ~Lists(R)}
<1>1. SUFFICES ASSUME Bad # {} PROVE FALSE
  <2>1. Cardinality(S) \in Nat
    BY FS_CardinalityType
  <2> QED
    BY <2>1
<1>2. PICK n \in Bad : \A k \in Bad : n <= k
  BY <1>1, SmallestExists
<1>3. PICK R \in SUBSET Nat : IsFiniteSet(R) /\ Cardinality(R) = n /\ ~Lists(R)
  BY <1>2
<1>4. CASE R = {}
  <2>1. n = 0
    BY <1>3, <1>4, FS_EmptySet
  <2>2. [k \in 1 .. n |-> 0] \in [1 .. n -> R] /\ Ascending([k \in 1 .. n |-> 0])
    BY <2>1 DEF Ascending
  <2> QED
    BY <1>3, <2>2
<1>5. CASE R # {}
  <2>1. PICK x \in R : \A k \in R : k <= x
    BY <1>3, <1>5, GreatestExists
  <2>2. IsFiniteSet(R \ {x}) /\ Cardinality(R \ {x}) = n - 1
    BY <1>3, <2>1, FS_RemoveElement
  <2>3. n - 1 \in Nat
    BY <2>2, FS_CardinalityType
  <2>4. n - 1 \notin Bad
    BY <1>2, <2>3
  <2>5. PICK s \in [1 .. n - 1 -> R \ {x}] : Ascending(s)
    BY <2>2, <2>3, <2>4
  <2> DEFINE t == [k \in 1 .. n |-> IF k = n THEN x ELSE s[k]]
  <2>6. t \in [1 .. n -> R]
    BY <2>1, <2>3, <2>5
  <2>7. ASSUME NEW k \in 1 .. n - 1 PROVE s[k] \in Nat /\ s[k] < x
    <3>1. s[k] \in R /\ s[k] # x
      BY <2>5
    <3>2. s[k] <= x /\ s[k] \in Nat /\ x \in Nat
      BY <2>1, <3>1
    <3> QED
      BY <3>1, <3>2
  <2>8. ASSUME NEW j \in 1 .. n, NEW k \in 1 .. n, j < k PROVE t[j] < t[k]
    BY <2>3, <2>5, <2>7, <2>8 DEF Ascending
  <2>9. Ascending(t)
    BY <2>8 DEF Ascending
  <2> QED
    BY <1>3, <2>6, <2>9
<1> QED
  BY <1>4, <1>5

\* InOrder lists every member of the set once, in ascending order.
LEMMA InOrderProperties ==
  ASSUME NEW S \in SUBSET Nat, IsFiniteSet(S)
  PROVE  /\ InOrder(S) \in [1 .. Cardinality(S) -> S]
         /\ Cardinality(S) \in Nat
         /\ Ascending(InOrder(S))
         /\ InOrder(S) \in Seq(S)
         /\ IsInjective(InOrder(S))
         /\ \A x \in S : \E k \in 1 .. Cardinality(S) : InOrder(S)[k] = x
         /\ Range(InOrder(S)) = S
<1> DEFINE s == InOrder(S)
           n == Cardinality(S)
<1>1. n \in Nat
  BY FS_CardinalityType
<1>2. s \in [1 .. n -> S] /\ Ascending(s)
  BY AscendingExists DEF InOrder
<1>3. s \in Seq(S)
  BY <1>1, <1>2, SeqDef
<1> HIDE DEF s
<1>4. ASSUME NEW j \in 1 .. n, NEW k \in 1 .. n, s[j] = s[k] PROVE j = k
  <2>1. j < k \/ k < j \/ j = k
    BY <1>1
  <2>2. s[j] \in Nat /\ s[k] \in Nat
    BY <1>2
  <2> QED
    BY <1>2, <1>4, <2>1, <2>2 DEF Ascending
<1>5. IsInjective(s)
  BY <1>2, <1>4 DEF IsInjective
<1>6. s \in Injection(1 .. n, S)
  BY <1>2, <1>5 DEF Injection
<1>7. IsFiniteSet(1 .. n) /\ Cardinality(1 .. n) = n
  BY <1>1, FS_Interval
<1>8. s \in Surjection(1 .. n, S)
  BY <1>6, <1>7, FS_Injection
<1>9. \A x \in S : \E k \in 1 .. n : s[k] = x
  BY <1>8 DEF Surjection
<1>10. Range(s) = S
  BY <1>2, <1>9 DEF Range
<1> QED
  BY <1>1, <1>2, <1>3, <1>5, <1>9, <1>10 DEF s

\* Without leaves exactly what is not gone, and lists nothing twice that was
\* listed once.
LEMMA WithoutProperties ==
  ASSUME NEW T, NEW seq \in Seq(T), NEW gone
  PROVE  /\ Without(seq, gone) \in Seq(T)
         /\ Range(Without(seq, gone)) = Range(seq) \ gone
         /\ IsInjective(seq) => IsInjective(Without(seq, gone))
<1> DEFINE left == {n \in DOMAIN seq : seq[n] \notin gone}
           kept == InOrder(left)
           w == [k \in DOMAIN kept |-> seq[kept[k]]]
<1>1. Len(seq) \in Nat /\ DOMAIN seq = 1 .. Len(seq)
  OBVIOUS
<1>2. left \in SUBSET Nat /\ IsFiniteSet(left)
  <2>1. IsFiniteSet(1 .. Len(seq))
    BY <1>1, FS_Interval
  <2>2. left \in SUBSET (1 .. Len(seq))
    BY <1>1
  <2>3. IsFiniteSet(left)
    BY <2>1, <2>2, FS_Subset
  <2> QED
    BY <2>2, <2>3
<1>3. /\ kept \in [1 .. Cardinality(left) -> left]
      /\ Cardinality(left) \in Nat
      /\ IsInjective(kept)
      /\ \A x \in left : \E k \in 1 .. Cardinality(left) : kept[k] = x
  BY <1>2, InOrderProperties
<1>4. Without(seq, gone) = w
  BY DEF Without
<1> HIDE DEF kept
<1>5. w \in [1 .. Cardinality(left) -> T]
  BY <1>3
<1>6. w \in Seq(T)
  BY <1>3, <1>5, SeqDef
<1>7. Range(w) = Range(seq) \ gone
  <2>1. ASSUME NEW x \in Range(seq) \ gone PROVE x \in Range(w)
    <3>1. PICK n \in DOMAIN seq : seq[n] = x
      BY DEF Range
    <3>2. n \in left
      BY <2>1, <3>1
    <3>3. PICK k \in 1 .. Cardinality(left) : kept[k] = n
      BY <1>3, <3>2
    <3> QED
      BY <1>3, <3>1, <3>3 DEF Range
  <2>2. ASSUME NEW x \in Range(w) PROVE x \in Range(seq) \ gone
    BY <1>3 DEF Range
  <2> QED
    BY <2>1, <2>2
<1>8. IsInjective(seq) => IsInjective(w)
  BY <1>3 DEF IsInjective
<1> QED
  BY <1>4, <1>6, <1>7, <1>8

=============================================================================
